---- MODULE Spec2Model ----
(***************************************************************************)
(* Model of the gitlab-mcp tool server: the process start-up check, the    *)
(* lazily constructed shared GitLab client (sync.OnceValue), and the       *)
(* action-routed tool handlers.  A handler is modelled as the function     *)
(* from its arguments and the Backend Client responses it has received so  *)
(* far to its next move: the next Backend Client call or the returned      *)
(* tool result; the arms of a CASE are read in order, as the code's        *)
(* successive if statements are.  A formatted text is the sequence of the  *)
(* pieces the code writes, each piece a tuple of its format and the values *)
(* printed.                                                                *)
(***************************************************************************)
EXTENDS Integers, Sequences, FiniteSets, TLC

VARIABLES fmt, today, env, proc, onceDone, onceM, oncePc, clientHandle, constructions,
          pc, req, resps, calls, handle, result

vars == <<fmt, today, env, proc, onceDone, onceM, oncePc, clientHandle, constructions,
          pc, req, resps, calls, handle, result>>

(* ---------------------------------------------------------------- bounds *)

\* Number of invocation slots the transport may have in flight at once.
NumInv == 2

\* The longest collection handed to a formatter, and how often it is formatted.
MaxProjects == 2
MaxRuns == 2

Inv == 1..NumInv

(* ------------------------------------------------------------- the moves *)

Call(op, target, params) ==
    [type |-> "call", op |-> op, target |-> target, params |-> params]

\* The handler asks for the shared client without issuing a call with it.
Client == [type |-> "client"]

\* time.Now(): the handler reads the clock of the process.
Clock == [type |-> "clock"]

\* kind: "text" (mcp.NewToolResultText), "error" (mcp.NewToolResultError,
\* returned with a nil Go error), "goerror" (nil result, non-nil Go error).
Ret(kind, body) == [type |-> "return", kind |-> kind, body |-> body]

\* The nil interface value that request.Params.Arguments holds for a key the
\* request does not carry.
Nil == "<nil>"

NoReq == [tool |-> "none"]
NoResult == [kind |-> "none"]

\* The error a failing Backend Client call returns.
BackendErrors == {"403 Forbidden"}

Failure(e) == [ok |-> FALSE, val |-> e]
Success(v) == [ok |-> TRUE, val |-> v]

\* The merge request the backend answers a successful creation with.
CreatedMR(params) ==
    [iid |-> 7, web_url |-> "https://gitlab.example/mr/7",
     source_branch |-> params.source_branch, target_branch |-> params.target_branch]

(* ------------------------------------------------- Git Flow branch tools *)

\* fmt.Sprintf("release/%s", v): the prefix and the value printed after it.
BranchName(prefix, v) == <<prefix, v>>

DefaultStr(v, d) == IF v = "" THEN d ELSE v

\* A report that keeps the created merge requests and drops the failures.
MRReport_OmitsFailure(r, target) ==
    IF r.ok
    THEN << <<"Created MR to %s: !%d", target, r.val.iid>>, <<"URL: %s", r.val.web_url>> >>
    ELSE <<>>

\* The report lines of one merge-request creation in a finish handler.
MRReport(r, target) ==
    IF r.ok
    THEN << <<"Created MR to %s: !%d", target, r.val.iid>>, <<"URL: %s", r.val.web_url>> >>
    ELSE << <<"Failed to create MR to %s: %v", target, r.val>> >>

\* The report line of the optional branch deletion.
DeleteReport(r, what, branch) ==
    IF r.ok
    THEN << <<"Deleted branch: %s", what, branch>> >>
    ELSE << <<"Failed to delete branch: %v", what, r.val>> >>

\* A finish handler that deletes the first merge request when the second
\* creation fails.
finishReleaseBranch_Rollback(args, rs) ==
    LET fo == args.finish_options
        releaseBranch == BranchName("release/", fo.release_version)
        developmentBranch == DefaultStr(fo.development_branch, "develop")
        productionBranch == DefaultStr(fo.production_branch, "master")
        mkMR(target) ==
            Call("CreateMergeRequest", args.project_path,
                 [title |-> <<"Release %s", fo.release_version>>,
                  description |-> <<"Release %s", fo.release_version>>,
                  source_branch |-> releaseBranch,
                  target_branch |-> target])
    IN  CASE Len(rs) = 0 ->
               Call("GetBranch", args.project_path, [branch |-> releaseBranch])
          [] Len(rs) = 1 /\ ~rs[1].ok ->
               Ret("error", << <<"release branch '%s' not found: %v", releaseBranch, rs[1].val>> >>)
          [] Len(rs) = 1 /\ rs[1].ok -> mkMR(developmentBranch)
          [] Len(rs) = 2 -> mkMR(productionBranch)
          [] Len(rs) = 3 /\ rs[2].ok /\ ~rs[3].ok ->
               Call("DeleteMergeRequest", args.project_path, [mr_iid |-> rs[2].val.iid])
          [] OTHER ->
               Ret("text", MRReport(rs[2], developmentBranch) \o MRReport(rs[3], productionBranch))

\* A release finish that opens the merge request to production first.
finishReleaseBranch_ProductionFirst(args, rs) ==
    LET fo == args.finish_options
        releaseBranch == BranchName("release/", fo.release_version)
        developmentBranch == DefaultStr(fo.development_branch, "develop")
        productionBranch == DefaultStr(fo.production_branch, "master")
        mkMR(target, desc) ==
            Call("CreateMergeRequest", args.project_path,
                 [title |-> <<"Release %s", fo.release_version>>,
                  description |-> desc,
                  source_branch |-> releaseBranch,
                  target_branch |-> target])
        head == << <<"Finishing release %s", fo.release_version>> >>
        tail == << <<"Release %s is ready for review and merge!", fo.release_version>> >>
        del == IF fo.delete_branch THEN DeleteReport(rs[4], "release", releaseBranch) ELSE <<>>
    IN  CASE Len(rs) = 0 ->
               Call("GetBranch", args.project_path, [branch |-> releaseBranch])
          [] Len(rs) = 1 /\ ~rs[1].ok ->
               Ret("error", << <<"release branch '%s' not found: %v", releaseBranch, rs[1].val>> >>)
          [] Len(rs) = 1 /\ rs[1].ok ->
               mkMR(productionBranch, <<"Release %s ready for production", fo.release_version>>)
          [] Len(rs) = 2 ->
               mkMR(developmentBranch,
                    <<"Release %s ready for merge to %s", fo.release_version, developmentBranch>>)
          [] Len(rs) = 3 /\ fo.delete_branch ->
               Call("DeleteBranch", args.project_path, [branch |-> releaseBranch])
          [] OTHER ->
               Ret("text", head \o MRReport(rs[3], developmentBranch)
                                \o MRReport(rs[2], productionBranch) \o del \o tail)

finishReleaseBranch(args, rs) ==
    LET fo == args.finish_options
        releaseBranch == BranchName("release/", fo.release_version)
        developmentBranch == DefaultStr(fo.development_branch, "develop")
        productionBranch == DefaultStr(fo.production_branch, "master")
        mkMR(target, desc) ==
            Call("CreateMergeRequest", args.project_path,
                 [title |-> <<"Release %s", fo.release_version>>,
                  description |-> desc,
                  source_branch |-> releaseBranch,
                  target_branch |-> target])
        head == << <<"Finishing release %s", fo.release_version>> >>
        tail == << <<"Release %s is ready for review and merge!", fo.release_version>> >>
        del == IF fo.delete_branch THEN DeleteReport(rs[4], "release", releaseBranch) ELSE <<>>
    IN  CASE Len(rs) = 0 ->
               Call("GetBranch", args.project_path, [branch |-> releaseBranch])
          [] Len(rs) = 1 /\ ~rs[1].ok ->
               Ret("error", << <<"release branch '%s' not found: %v", releaseBranch, rs[1].val>> >>)
          [] Len(rs) = 1 /\ rs[1].ok ->
               mkMR(developmentBranch,
                    <<"Release %s ready for merge to %s", fo.release_version, developmentBranch>>)
          [] Len(rs) = 2 ->
               mkMR(productionBranch, <<"Release %s ready for production", fo.release_version>>)
          [] Len(rs) = 3 /\ fo.delete_branch ->
               Call("DeleteBranch", args.project_path, [branch |-> releaseBranch])
          [] OTHER ->
               Ret("text", head \o MRReport(rs[2], developmentBranch)
                                \o MRReport(rs[3], productionBranch) \o del \o tail)

\* A feature finish that opens the merge request without looking for the
\* branch first.
finishFeatureBranch_NoCheck(args, rs) ==
    LET fo == args.finish_options
        featureBranch == BranchName("feature/", fo.feature_name)
        targetBranch == DefaultStr(fo.target_branch, DefaultStr(fo.development_branch, "develop"))
    IN  CASE Len(rs) = 0 ->
               Call("GetBranch", args.project_path, [branch |-> featureBranch])
          [] Len(rs) = 1 ->
               Call("CreateMergeRequest", args.project_path,
                    [title |-> <<"Feature: %s", fo.feature_name>>,
                     description |-> <<"Feature implementation: %s", fo.feature_name>>,
                     source_branch |-> featureBranch,
                     target_branch |-> targetBranch])
          [] ~rs[2].ok ->
               Ret("error", << <<"failed to create MR: %v", rs[2].val>> >>)
          [] OTHER ->
               Ret("text", << <<"Finishing feature %s", fo.feature_name>> >>
                           \o MRReport(rs[2], targetBranch))

finishFeatureBranch(args, rs) ==
    LET fo == args.finish_options
        featureBranch == BranchName("feature/", fo.feature_name)
        targetBranch == DefaultStr(fo.target_branch, DefaultStr(fo.development_branch, "develop"))
        head == << <<"Finishing feature %s", fo.feature_name>> >>
        tail == << <<"Feature %s is ready for review!", fo.feature_name>> >>
        del == IF fo.delete_branch THEN DeleteReport(rs[3], "feature", featureBranch) ELSE <<>>
    IN  CASE Len(rs) = 0 ->
               Call("GetBranch", args.project_path, [branch |-> featureBranch])
          [] Len(rs) = 1 /\ ~rs[1].ok ->
               Ret("error", << <<"feature branch '%s' not found: %v", featureBranch, rs[1].val>> >>)
          [] Len(rs) = 1 /\ rs[1].ok ->
               Call("CreateMergeRequest", args.project_path,
                    [title |-> <<"Feature: %s", fo.feature_name>>,
                     description |-> <<"Feature implementation: %s", fo.feature_name>>,
                     source_branch |-> featureBranch,
                     target_branch |-> targetBranch])
          [] Len(rs) = 2 /\ ~rs[2].ok ->
               Ret("error", << <<"failed to create MR: %v", rs[2].val>> >>)
          [] Len(rs) = 2 /\ rs[2].ok /\ fo.delete_branch ->
               Call("DeleteBranch", args.project_path, [branch |-> featureBranch])
          [] OTHER ->
               Ret("text", head \o MRReport(rs[2], targetBranch) \o del \o tail)

\* A hotfix finish that opens the merge request to production only.
finishHotfixBranch_ProductionOnly(args, rs) ==
    LET fo == args.finish_options
        hotfixBranch == BranchName("hotfix/", fo.hotfix_version)
        productionBranch == DefaultStr(fo.production_branch, "master")
    IN  CASE Len(rs) = 0 ->
               Call("GetBranch", args.project_path, [branch |-> hotfixBranch])
          [] Len(rs) = 1 /\ ~rs[1].ok ->
               Ret("error", << <<"hotfix branch '%s' not found: %v", hotfixBranch, rs[1].val>> >>)
          [] Len(rs) = 1 /\ rs[1].ok ->
               Call("CreateMergeRequest", args.project_path,
                    [title |-> <<"Hotfix %s", fo.hotfix_version>>,
                     description |-> <<"Critical hotfix %s", fo.hotfix_version>>,
                     source_branch |-> hotfixBranch,
                     target_branch |-> productionBranch])
          [] OTHER ->
               Ret("text", << <<"Finishing hotfix %s", fo.hotfix_version>> >>
                           \o MRReport(rs[2], productionBranch))

finishHotfixBranch(args, rs) ==
    LET fo == args.finish_options
        hotfixBranch == BranchName("hotfix/", fo.hotfix_version)
        developmentBranch == DefaultStr(fo.development_branch, "develop")
        productionBranch == DefaultStr(fo.production_branch, "master")
        mkMR(target, desc) ==
            Call("CreateMergeRequest", args.project_path,
                 [title |-> <<"Hotfix %s", fo.hotfix_version>>,
                  description |-> desc,
                  source_branch |-> hotfixBranch,
                  target_branch |-> target])
        head == << <<"Finishing hotfix %s", fo.hotfix_version>> >>
        tail == << <<"Hotfix %s is ready for urgent review and deployment!", fo.hotfix_version>> >>
        del == IF fo.delete_branch THEN DeleteReport(rs[4], "hotfix", hotfixBranch) ELSE <<>>
    IN  CASE Len(rs) = 0 ->
               Call("GetBranch", args.project_path, [branch |-> hotfixBranch])
          [] Len(rs) = 1 /\ ~rs[1].ok ->
               Ret("error", << <<"hotfix branch '%s' not found: %v", hotfixBranch, rs[1].val>> >>)
          [] Len(rs) = 1 /\ rs[1].ok ->
               mkMR(productionBranch, <<"Critical hotfix %s", fo.hotfix_version>>)
          [] Len(rs) = 2 ->
               mkMR(developmentBranch,
                    <<"Hotfix %s merge to %s", fo.hotfix_version, developmentBranch>>)
          [] Len(rs) = 3 /\ fo.delete_branch ->
               Call("DeleteBranch", args.project_path, [branch |-> hotfixBranch])
          [] OTHER ->
               Ret("text", head \o MRReport(rs[2], productionBranch)
                                \o MRReport(rs[3], developmentBranch) \o del \o tail)

gitFlowFinishBranchHandler(args, rs) ==
    CASE args.action = "finish_release" -> finishReleaseBranch(args, rs)
      [] args.action = "finish_feature" -> finishFeatureBranch(args, rs)
      [] args.action = "finish_hotfix" -> finishHotfixBranch(args, rs)
      [] OTHER -> Ret("error", << <<"unsupported action: %s", args.action>> >>)

\* A create handler that lists the branches and creates the branch whatever
\* the list holds.
createFlowBranch_IgnoresList(args, rs, kind, prefix, version, defaultBase) ==
    LET co == args.create_options
        baseBranch == DefaultStr(co.base_branch, defaultBase)
        newBranch == BranchName(prefix, version)
    IN  CASE Len(rs) = 0 ->
               Call("ListBranches", args.project_path, [search |-> newBranch])
          [] Len(rs) = 1 /\ ~rs[1].ok ->
               Ret("error", << <<"failed to check existing branches: %v", rs[1].val>> >>)
          [] Len(rs) = 1 /\ rs[1].ok ->
               Call("CreateBranch", args.project_path, [branch |-> newBranch, ref |-> baseBranch])
          [] Len(rs) = 2 /\ ~rs[2].ok ->
               Ret("error", << <<"failed to create branch: %v", kind, rs[2].val>> >>)
          [] OTHER ->
               Ret("text", << <<"branch created successfully!", kind>>,
                              <<"Branch: %s", rs[2].val.name>> >>)

\* A create handler that reports the branch as created although CreateBranch
\* failed.
createFlowBranch_AlwaysCreated(args, rs, kind, prefix, version, defaultBase) ==
    LET co == args.create_options
        baseBranch == DefaultStr(co.base_branch, defaultBase)
        newBranch == BranchName(prefix, version)
        exists == \E k \in 1..Len(rs[1].val) : rs[1].val[k] = newBranch
    IN  CASE Len(rs) = 0 ->
               Call("ListBranches", args.project_path, [search |-> newBranch])
          [] Len(rs) = 1 /\ ~rs[1].ok ->
               Ret("error", << <<"failed to check existing branches: %v", rs[1].val>> >>)
          [] Len(rs) = 1 /\ rs[1].ok /\ exists ->
               Ret("error", << <<"branch '%s' already exists", kind, newBranch>> >>)
          [] Len(rs) = 1 /\ rs[1].ok /\ ~exists ->
               Call("CreateBranch", args.project_path, [branch |-> newBranch, ref |-> baseBranch])
          [] OTHER ->
               Ret("text", << <<"branch created successfully!", kind>>,
                              <<"Branch: %s", newBranch>>,
                              <<"Based on: %s", baseBranch>> >>)

\* The three create handlers differ in the prefix, the version field, the
\* branch the base defaults to and the words of the messages.
createFlowBranch(args, rs, kind, prefix, version, defaultBase) ==
    LET co == args.create_options
        baseBranch == DefaultStr(co.base_branch, defaultBase)
        newBranch == BranchName(prefix, version)
        exists == \E k \in 1..Len(rs[1].val) : rs[1].val[k] = newBranch
    IN  CASE Len(rs) = 0 ->
               Call("ListBranches", args.project_path, [search |-> newBranch])
          [] Len(rs) = 1 /\ ~rs[1].ok ->
               Ret("error", << <<"failed to check existing branches: %v", rs[1].val>> >>)
          [] Len(rs) = 1 /\ rs[1].ok /\ exists ->
               Ret("error", << <<"branch '%s' already exists", kind, newBranch>> >>)
          [] Len(rs) = 1 /\ rs[1].ok /\ ~exists ->
               Call("CreateBranch", args.project_path, [branch |-> newBranch, ref |-> baseBranch])
          [] Len(rs) = 2 /\ ~rs[2].ok ->
               Ret("error", << <<"failed to create branch: %v", kind, rs[2].val>> >>)
          [] OTHER ->
               Ret("text", << <<"branch created successfully!", kind>>,
                              <<"Branch: %s", rs[2].val.name>>,
                              <<"Based on: %s", baseBranch>>,
                              <<"Commit: %s", rs[2].val.commit>>,
                              <<"Next steps", kind, version>> >>)

createReleaseBranch(args, rs) ==
    createFlowBranch(args, rs, "release", "release/", args.create_options.release_version,
                     DefaultStr(args.create_options.development_branch, "develop"))

createFeatureBranch(args, rs) ==
    createFlowBranch(args, rs, "feature", "feature/", args.create_options.feature_name,
                     DefaultStr(args.create_options.development_branch, "develop"))

createHotfixBranch(args, rs) ==
    createFlowBranch(args, rs, "hotfix", "hotfix/", args.create_options.hotfix_version,
                     DefaultStr(args.create_options.production_branch, "master"))

gitFlowCreateBranchHandler(args, rs) ==
    CASE args.action = "create_release" -> createReleaseBranch(args, rs)
      [] args.action = "create_feature" -> createFeatureBranch(args, rs)
      [] args.action = "create_hotfix" -> createHotfixBranch(args, rs)
      [] OTHER -> Ret("error", << <<"unsupported action: %s", args.action>> >>)

(* --------------------------------------------------- merge request tools *)

\* The message "<fields> is/are required for <action> action": the field
\* names the message lists and the action it names.
Required(fields, action) == <<"%s required for %s action", fields, action>>

\* The decimal strings the model uses and the integers they denote.
Digits == [x \in {"5", "7"} |-> IF x = "5" THEN 5 ELSE 7]

\* strconv.Atoi: the integer of a decimal string, or a syntax error.
Atoi(x) ==
    IF x \in DOMAIN Digits
    THEN Success(Digits[x])
    ELSE Failure(<<"strconv.Atoi: parsing %q: invalid syntax", x>>)

\* A pointer option of the client library: set only for a non-zero value.
OptStr(v) == IF v = "" THEN <<>> ELSE <<v>>
OptInt(v) == IF v = 0 THEN <<>> ELSE <<v>>
OptTrue(v) == IF v THEN <<TRUE>> ELSE <<>>

\* A list handler that hands the backend failure back as a Go error.
listMergeRequestsHandler_GoError(args, rs) ==
    CASE Len(rs) = 0 ->
           Call("ListProjectMergeRequests", args.project_path,
                [state |-> DefaultStr(args.state, "all"), per_page |-> 100])
      [] Len(rs) = 1 /\ ~rs[1].ok ->
           Ret("goerror", << <<"failed to list merge requests: %v", rs[1].val>> >>)
      [] OTHER ->
           Ret("text", [k \in 1..Len(rs[1].val) |-> <<"MR #%d: %s", rs[1].val[k].iid>>])

listMergeRequestsHandler(args, rs) ==
    LET state == DefaultStr(args.state, "all")
        mrs == rs[1].val
    IN  CASE Len(rs) = 0 ->
               Call("ListProjectMergeRequests", args.project_path,
                    [state |-> state, per_page |-> 100])
          [] Len(rs) = 1 /\ ~rs[1].ok ->
               Ret("error", << <<"failed to list merge requests: %v", rs[1].val>> >>)
          [] OTHER ->
               Ret("text", [k \in 1..Len(mrs) |->
                              <<"MR #%d: %s State: %s", mrs[k].iid, mrs[k].title, mrs[k].state>>])

\* A get handler that goes on to the diffs after GetMergeRequest has failed.
getMergeRequestHandler_Continue(args, rs) ==
    LET mrIID == Atoi(args.mr_iid)
    IN  CASE ~mrIID.ok ->
               Ret("error", << <<"invalid mr_iid: %v", mrIID.val>> >>)
          [] Len(rs) = 0 ->
               Call("GetMergeRequest", args.project_path, [mr_iid |-> mrIID.val])
          [] Len(rs) = 1 ->
               Call("ListMergeRequestDiffs", args.project_path, [mr_iid |-> mrIID.val])
          [] ~rs[1].ok ->
               Ret("error", << <<"failed to get merge request: %v", rs[1].val>> >>)
          [] ~rs[2].ok ->
               Ret("error", << <<"failed to get merge request changes: %v", rs[2].val>> >>)
          [] OTHER ->
               Ret("text", << <<"Merge Request #%d: %s", rs[1].val.iid, rs[1].val.title>> >>)

getMergeRequestHandler(args, rs) ==
    LET mrIID == Atoi(args.mr_iid)
        mr == rs[1].val
        changes == rs[2].val
    IN  CASE ~mrIID.ok ->
               Ret("error", << <<"invalid mr_iid: %v", mrIID.val>> >>)
          [] Len(rs) = 0 ->
               Call("GetMergeRequest", args.project_path, [mr_iid |-> mrIID.val])
          [] Len(rs) = 1 /\ ~rs[1].ok ->
               Ret("error", << <<"failed to get merge request: %v", rs[1].val>> >>)
          [] Len(rs) = 1 /\ rs[1].ok ->
               Call("ListMergeRequestDiffs", args.project_path, [mr_iid |-> mrIID.val])
          [] Len(rs) = 2 /\ ~rs[2].ok ->
               Ret("error", << <<"failed to get merge request changes: %v", rs[2].val>> >>)
          [] OTHER ->
               Ret("text", << <<"Merge Request #%d: %s", mr.iid, mr.title>>,
                              <<"State: %s", mr.state>>,
                              <<"Total files changed: %d", Len(changes)>> >>
                           \o [k \in 1..Len(changes) |-> <<"File: %s", changes[k]>>])

\* A create handler that tries the creation a second time after a failure.
createMergeRequestHandler_Retry(args, rs) ==
    LET create == Call("CreateMergeRequest", args.project_path,
                       [title |-> args.title,
                        source_branch |-> args.source_branch,
                        target_branch |-> args.target_branch,
                        description |-> OptStr(args.description)])
    IN  CASE Len(rs) = 0 -> create
          [] Len(rs) = 1 /\ ~rs[1].ok -> create
          [] ~rs[Len(rs)].ok ->
               Ret("error", << <<"failed to create merge request: %v", rs[Len(rs)].val>> >>)
          [] OTHER ->
               Ret("text", << <<"Merge Request created successfully!">>,
                              <<"MR #%d", rs[Len(rs)].val.iid>> >>)

createMergeRequestHandler(args, rs) ==
    CASE Len(rs) = 0 ->
           Call("CreateMergeRequest", args.project_path,
                [title |-> args.title,
                 source_branch |-> args.source_branch,
                 target_branch |-> args.target_branch,
                 description |-> OptStr(args.description)])
      [] Len(rs) = 1 /\ ~rs[1].ok ->
           Ret("error", << <<"failed to create merge request: %v", rs[1].val>> >>)
      [] OTHER ->
           Ret("text", << <<"Merge Request created successfully!">>,
                          <<"MR #%d", rs[1].val.iid>>,
                          <<"Source Branch: %s", rs[1].val.source_branch>>,
                          <<"Target Branch: %s", rs[1].val.target_branch>>,
                          <<"URL: %s", rs[1].val.web_url>> >>)

\* The options updateMergeRequestHandler hands to UpdateMergeRequest.  The
\* labels of the request are not among them (the assignment is commented out).
UpdateMergeRequestOptions(args) ==
    [title |-> OptStr(args.title),
     description |-> OptStr(args.description),
     target_branch |-> OptStr(args.target_branch),
     state_event |-> OptStr(args.state_event),
     assignee_id |-> OptInt(args.assignee_id),
     milestone_id |-> OptInt(args.milestone_id),
     labels |-> <<>>,
     remove_source_branch |-> OptTrue(args.remove_source_branch),
     squash |-> OptTrue(args.squash),
     discussion_locked |-> OptTrue(args.discussion_locked)]

updateMergeRequestHandler(args, rs) ==
    LET mrIID == Atoi(args.mr_iid)
    IN  CASE ~mrIID.ok ->
               Ret("error", << <<"invalid mr_iid: %v", mrIID.val>> >>)
          [] Len(rs) = 0 ->
               Call("UpdateMergeRequest", args.project_path,
                    [mr_iid |-> mrIID.val, opt |-> UpdateMergeRequestOptions(args)])
          [] Len(rs) = 1 /\ ~rs[1].ok ->
               Ret("error", << <<"failed to update merge request: %v", rs[1].val>> >>)
          [] OTHER ->
               Ret("text", << <<"Merge Request updated successfully!">>,
                              <<"MR #%d: %s", rs[1].val.iid, rs[1].val.title>>,
                              <<"State: %s", rs[1].val.state>> >>)

acceptMergeRequestHandler(args, rs) ==
    LET mrIID == Atoi(args.mr_iid)
    IN  CASE ~mrIID.ok ->
               Ret("error", << <<"invalid mr_iid: %v", mrIID.val>> >>)
          [] Len(rs) = 0 ->
               Call("AcceptMergeRequest", args.project_path,
                    [mr_iid |-> mrIID.val,
                     opt |-> [merge_commit_message |-> OptStr(args.merge_commit_message),
                              squash |-> OptTrue(args.squash)]])
          [] Len(rs) = 1 /\ ~rs[1].ok ->
               Ret("error", << <<"failed to accept merge request: %v", rs[1].val>> >>)
          [] OTHER ->
               Ret("text", << <<"Merge Request accepted successfully!">>,
                              <<"MR #%d: %s", rs[1].val.iid, rs[1].val.title>>,
                              <<"State: %s", rs[1].val.state>> >>)

rebaseMRHandler(args, rs) ==
    LET mrIID == Atoi(args.mr_iid)
    IN  CASE ~mrIID.ok ->
               Ret("error", << <<"invalid mr_iid: %v", mrIID.val>> >>)
          [] Len(rs) = 0 ->
               Call("RebaseMergeRequest", args.project_path,
                    [mr_iid |-> mrIID.val, opt |-> [skip_ci |-> args.skip_ci]])
          [] Len(rs) = 1 /\ ~rs[1].ok ->
               Ret("error", << <<"failed to rebase merge request: %v", rs[1].val>> >>)
          [] OTHER ->
               Ret("text", << <<"Merge Request !%d has been successfully rebased.", mrIID.val>> >>
                           \o (IF args.skip_ci
                               THEN << <<"CI pipeline was skipped for this rebase.">> >>
                               ELSE <<>>))

getMRChangesHandler(args, rs) ==
    LET mrIID == Atoi(args.mr_iid)
    IN  CASE ~mrIID.ok ->
               Ret("error", << <<"invalid mr_iid: %v", mrIID.val>> >>)
          [] Len(rs) = 0 ->
               Call("GetMergeRequestChanges", args.project_path,
                    [mr_iid |-> mrIID.val,
                     opt |-> [access_raw_diffs |-> args.access_raw_diffs,
                              unidiff |-> args.unidiff]])
          [] Len(rs) = 1 /\ ~rs[1].ok ->
               Ret("error", << <<"failed to get merge request changes: %v", rs[1].val>> >>)
          [] OTHER ->
               Ret("text", << <<"Changes for Merge Request !%d: %s", rs[1].val.iid, rs[1].val.title>>,
                              <<"State: %s", rs[1].val.state>>,
                              <<"Note: This endpoint is deprecated.">> >>)

mergeRequestManagementHandler(args, rs) ==
    CASE args.action = "list" ->
           listMergeRequestsHandler(
               [project_path |-> args.project_path,
                state |-> DefaultStr(args.list_options.state, "all")], rs)
      [] args.action = "get" ->
           IF args.mr_iid = ""
           THEN Ret("error", << Required({"mr_iid"}, "get") >>)
           ELSE getMergeRequestHandler(
                    [project_path |-> args.project_path, mr_iid |-> args.mr_iid], rs)
      [] args.action = "create" ->
           IF \/ args.create_options.source_branch = ""
              \/ args.create_options.target_branch = ""
              \/ args.create_options.title = ""
           THEN Ret("error", << Required({"source_branch", "target_branch", "title"}, "create") >>)
           ELSE createMergeRequestHandler(
                    [project_path |-> args.project_path,
                     source_branch |-> args.create_options.source_branch,
                     target_branch |-> args.create_options.target_branch,
                     title |-> args.create_options.title,
                     description |-> args.create_options.description], rs)
      [] args.action = "update" ->
           IF args.mr_iid = ""
           THEN Ret("error", << Required({"mr_iid"}, "update") >>)
           ELSE updateMergeRequestHandler(
                    [project_path |-> args.project_path,
                     mr_iid |-> args.mr_iid,
                     title |-> args.update_options.title,
                     description |-> args.update_options.description,
                     target_branch |-> args.update_options.target_branch,
                     state_event |-> args.update_options.state_event,
                     assignee_id |-> args.update_options.assignee_id,
                     milestone_id |-> args.update_options.milestone_id,
                     labels |-> args.update_options.labels,
                     remove_source_branch |-> args.update_options.remove_source_branch,
                     squash |-> args.update_options.squash,
                     discussion_locked |-> args.update_options.discussion_locked], rs)
      [] args.action = "accept" ->
           IF args.mr_iid = ""
           THEN Ret("error", << Required({"mr_iid"}, "accept") >>)
           ELSE acceptMergeRequestHandler(
                    [project_path |-> args.project_path,
                     mr_iid |-> args.mr_iid,
                     merge_commit_message |-> args.accept_options.merge_commit_message,
                     squash |-> args.accept_options.squash], rs)
      [] args.action = "rebase" ->
           IF args.mr_iid = ""
           THEN Ret("error", << Required({"mr_iid"}, "rebase") >>)
           ELSE rebaseMRHandler(
                    [project_path |-> args.project_path,
                     mr_iid |-> args.mr_iid,
                     skip_ci |-> args.rebase_options.skip_ci], rs)
      [] args.action = "changes" ->
           IF args.mr_iid = ""
           THEN Ret("error", << Required({"mr_iid"}, "changes") >>)
           ELSE getMRChangesHandler(
                    [project_path |-> args.project_path,
                     mr_iid |-> args.mr_iid,
                     access_raw_diffs |-> args.changes_options.access_raw_diffs,
                     unidiff |-> args.changes_options.unidiff], rs)
      [] OTHER ->
           Ret("error", << <<"unsupported action: %s", args.action>> >>)

(* ------------------------------------------------------ deploy token tool *)

\* time.Parse(time.RFC3339, s) on the time strings of the model.
ParseRFC3339(x) ==
    IF x = "2030-01-01T00:00:00Z"
    THEN Success(x)
    ELSE Failure(<<"parsing time %q: cannot parse", x>>)

DeployTokenTarget(args) ==
    IF args.scope.type = "project" THEN args.scope.project_path ELSE args.scope.group_id

\* "Project" or "Group": the half of the handler taken (type == "project" or else).
DeployTokenKind(args) == IF args.scope.type = "project" THEN "Project" ELSE "Group"

\* The client method each half calls for a verb.
DeployTokenOp(verb, args) ==
    IF args.scope.type = "project"
    THEN CASE verb = "List" -> "ListProjectDeployTokens"
           [] verb = "Get" -> "GetProjectDeployToken"
           [] verb = "Create" -> "CreateProjectDeployToken"
           [] verb = "Delete" -> "DeleteProjectDeployToken"
    ELSE CASE verb = "List" -> "ListGroupDeployTokens"
           [] verb = "Get" -> "GetGroupDeployToken"
           [] verb = "Create" -> "CreateGroupDeployToken"
           [] verb = "Delete" -> "DeleteGroupDeployToken"

\* args.TokenID.ID and args.CreateOpts.Name with a nil pointer: the runtime
\* panics.
NilDereference ==
    Ret("panic", << <<"runtime error: invalid memory address or nil pointer dereference">> >>)

handleListDeployTokens(args, rs) ==
    CASE Len(rs) = 0 ->
           Call(DeployTokenOp("List", args), DeployTokenTarget(args), <<>>)
      [] Len(rs) = 1 /\ ~rs[1].ok ->
           Ret("error", << <<"failed to list deploy tokens: %v", DeployTokenKind(args), rs[1].val>> >>)
      [] OTHER ->
           Ret("text", << <<"Deploy tokens for '%s' (%d tokens):", DeployTokenKind(args),
                            DeployTokenTarget(args), Len(rs[1].val)>> >>
                       \o [k \in 1..Len(rs[1].val) |-> <<"ID: %d Name: %s", rs[1].val[k]>>])

handleGetDeployToken(args, rs) ==
    LET deployTokenID == Atoi(args.token_id[1].id)
    IN  CASE args.token_id = <<>> -> NilDereference
          [] ~deployTokenID.ok ->
               Ret("error", << <<"invalid deploy token ID: %v", deployTokenID.val>> >>)
          [] Len(rs) = 0 ->
               Call(DeployTokenOp("Get", args), DeployTokenTarget(args),
                    [id |-> deployTokenID.val])
          [] Len(rs) = 1 /\ ~rs[1].ok ->
               Ret("error", << <<"failed to get deploy token: %v", DeployTokenKind(args), rs[1].val>> >>)
          [] OTHER ->
               Ret("text", << <<"Deploy Token Details:", DeployTokenKind(args)>>,
                              <<"ID: %d Name: %s", rs[1].val>> >>)

handleCreateDeployToken(args, rs) ==
    LET co == args.create_options[1]
        expiresAt == ParseRFC3339(co.expires_at)
    IN  CASE args.create_options = <<>> -> NilDereference
          [] co.expires_at # "" /\ ~expiresAt.ok ->
               Ret("error", << <<"invalid expires_at format: %v", expiresAt.val>> >>)
          [] Len(rs) = 0 ->
               Call(DeployTokenOp("Create", args), DeployTokenTarget(args),
                    [name |-> co.name,
                     scopes |-> co.scopes,
                     expires_at |-> IF co.expires_at # "" THEN <<expiresAt.val>> ELSE <<>>,
                     username |-> OptStr(co.username)])
          [] Len(rs) = 1 /\ ~rs[1].ok ->
               Ret("error", << <<"failed to create deploy token: %v", DeployTokenKind(args), rs[1].val>> >>)
          [] OTHER ->
               Ret("text", << <<"Deploy token created successfully for '%s'!", DeployTokenKind(args),
                                DeployTokenTarget(args)>>,
                              <<"ID: %d Name: %s", rs[1].val>>,
                              <<"Important: Save the token value now.">> >>)

handleDeleteDeployToken(args, rs) ==
    LET deployTokenID == Atoi(args.token_id[1].id)
    IN  CASE args.token_id = <<>> -> NilDereference
          [] ~deployTokenID.ok ->
               Ret("error", << <<"invalid deploy token ID: %v", deployTokenID.val>> >>)
          [] Len(rs) = 0 ->
               Call(DeployTokenOp("Delete", args), DeployTokenTarget(args),
                    [id |-> deployTokenID.val])
          [] Len(rs) = 1 /\ ~rs[1].ok ->
               Ret("error", << <<"failed to delete deploy token: %v", DeployTokenKind(args), rs[1].val>> >>)
          [] OTHER ->
               Ret("text", << <<"Deploy token %s deleted successfully from '%s'", DeployTokenKind(args),
                                args.token_id[1].id, DeployTokenTarget(args)>> >>)

\* token_id and create_options are pointers: <<>> is nil, <<v>> points to v.
\* A dispatcher that asks for token_id whatever the action is.
manageDeployTokensHandler_TokenAlways(args, rs) ==
    CASE args.scope.type # "project" /\ args.scope.type # "group" ->
           Ret("error", << <<"scope.type must be either 'project' or 'group'">> >>)
      [] args.token_id = <<>> ->
           Ret("error", << Required({"token_id"}, "get/delete") >>)
      [] args.action = "list" -> handleListDeployTokens(args, rs)
      [] args.action = "get" -> handleGetDeployToken(args, rs)
      [] args.action = "create" /\ args.create_options # <<>> -> handleCreateDeployToken(args, rs)
      [] args.action = "delete" -> handleDeleteDeployToken(args, rs)
      [] OTHER -> Ret("error", << <<"unsupported action: %s", args.action>> >>)

\* A dispatcher that routes on the action without looking at the blocks.
manageDeployTokensHandler_Unchecked(args, rs) ==
    CASE args.scope.type # "project" /\ args.scope.type # "group" ->
           Ret("error", << <<"scope.type must be either 'project' or 'group'">> >>)
      [] args.scope.type = "project" /\ args.scope.project_path = "" ->
           Ret("error", << <<"%s is required for %s scope", {"scope.project_path"}, "project">> >>)
      [] args.scope.type = "group" /\ args.scope.group_id = "" ->
           Ret("error", << <<"%s is required for %s scope", {"scope.group_id"}, "group">> >>)
      [] args.action = "list" -> handleListDeployTokens(args, rs)
      [] args.action = "get" -> handleGetDeployToken(args, rs)
      [] args.action = "create" -> handleCreateDeployToken(args, rs)
      [] args.action = "delete" -> handleDeleteDeployToken(args, rs)
      [] OTHER -> Ret("error", << <<"unsupported action: %s", args.action>> >>)

manageDeployTokensHandler(args, rs) ==
    CASE args.scope.type # "project" /\ args.scope.type # "group" ->
           Ret("error", << <<"scope.type must be either 'project' or 'group'">> >>)
      [] args.scope.type = "project" /\ args.scope.project_path = "" ->
           Ret("error", << <<"%s is required for %s scope", {"scope.project_path"}, "project">> >>)
      [] args.scope.type = "group" /\ args.scope.group_id = "" ->
           Ret("error", << <<"%s is required for %s scope", {"scope.group_id"}, "group">> >>)
      [] args.action \in {"get", "delete"} /\ args.token_id = <<>> ->
           Ret("error", << Required({"token_id"}, "get/delete") >>)
      [] args.action = "create" /\ args.create_options = <<>> ->
           Ret("error", << Required({"create_options"}, "create") >>)
      [] args.action = "create" /\ args.create_options[1].name = "" ->
           Ret("error", << Required({"create_options.name"}, "create") >>)
      [] args.action = "create" /\ Len(args.create_options[1].scopes) = 0 ->
           Ret("error", << Required({"create_options.scopes"}, "create") >>)
      [] args.action = "list" -> handleListDeployTokens(args, rs)
      [] args.action = "get" -> handleGetDeployToken(args, rs)
      [] args.action = "create" -> handleCreateDeployToken(args, rs)
      [] args.action = "delete" -> handleDeleteDeployToken(args, rs)
      [] OTHER -> Ret("error", << <<"unsupported action: %s", args.action>> >>)

(* ---------------------------------------------------------------- job tool *)

\* strings.ToLower on the action strings of the model.
ToLower(x) ==
    CASE x = "GET" -> "get"
      [] x = "Retry" -> "retry"
      [] OTHER -> x

jobAction(op, failed, done, projectPath, jobID, rs) ==
    CASE Len(rs) = 0 -> Call(op, projectPath, [job_id |-> jobID])
      [] Len(rs) = 1 /\ ~rs[1].ok -> Ret("error", << <<failed, rs[1].val>> >>)
      [] OTHER -> Ret("text", << <<done, rs[1].val.id>>,
                                 <<"Job #%d - %s", rs[1].val.id, rs[1].val.name>>,
                                 <<"Status: %s", rs[1].val.status>> >>)

getJobDetails(projectPath, jobID, rs) ==
    jobAction("GetJob", "failed to get job: %v", "Job #%d Details:", projectPath, jobID, rs)

cancelJobAction(projectPath, jobID, rs) ==
    jobAction("CancelJob", "failed to cancel job: %v",
              "Job #%d has been canceled successfully!", projectPath, jobID, rs)

retryJobAction(projectPath, jobID, rs) ==
    jobAction("RetryJob", "failed to retry job: %v",
              "Job #%d has been retried successfully!", projectPath, jobID, rs)

jobManageHandler(args, rs) ==
    LET jobID == args.job_id
        action == ToLower(args.action)
    IN  CASE action = "get" -> getJobDetails(args.project_path, jobID, rs)
          [] action = "cancel" -> cancelJobAction(args.project_path, jobID, rs)
          [] action = "retry" -> retryJobAction(args.project_path, jobID, rs)
          [] OTHER -> Ret("error", << <<"invalid action '%s'. Valid actions are: get, cancel, retry",
                                        args.action>> >>)

(* -------------------------------------------------------------- search tool *)

\* Results per page when the request sets none.
DefaultPerPage == 20

\* formatProjectsResult and its siblings: "" for no item, else a count line
\* and one entry per item.
formatSearchResult(what, items) ==
    IF Len(items) = 0
    THEN <<>>
    ELSE << <<"Found %d item(s):", what, Len(items)>> >>
         \o [k \in 1..Len(items) |-> <<"%d. %s", k, items[k]>>]

GlobalSearchScopes == {"projects", "merge_requests", "commits", "blobs", "users"}
GroupSearchScopes == {"projects", "merge_requests", "commits", "blobs", "users"}
ProjectSearchScopes == {"merge_requests", "commits", "blobs", "users"}

\* performGlobalSearch, performGroupSearch, performProjectSearch: rs holds the
\* responses received after the client was obtained.
performSearch(level, scopes, target, args, opt, rs) ==
    CASE args.scope \notin scopes ->
           [done |-> TRUE, err |-> << <<"unsupported scope for %s search: %s", level, args.scope>> >>,
            text |-> <<>>]
      [] Len(rs) = 0 ->
           [done |-> FALSE,
            call |-> Call("Search", target,
                          [level |-> level, scope |-> args.scope, query |-> args.query, opt |-> opt])]
      [] ~rs[1].ok ->
           [done |-> TRUE, err |-> << rs[1].val >>, text |-> <<>>]
      [] OTHER ->
           [done |-> TRUE, err |-> <<>>, text |-> formatSearchResult(args.scope, rs[1].val)]

performGlobalSearch(args, opt, rs) ==
    performSearch("global", GlobalSearchScopes, "", args, opt, rs)

performGroupSearch(args, opt, rs) ==
    performSearch("group", GroupSearchScopes, args.context.group_id, args, opt, rs)

performProjectSearch(args, opt, rs) ==
    performSearch("project", ProjectSearchScopes, args.context.project_id, args, opt, rs)

unifiedSearchHandler(args, rs) ==
    LET opt == [ref |-> OptStr(args.ref),
                per_page |-> IF args.options.per_page > 0
                             THEN args.options.per_page ELSE DefaultPerPage,
                page |-> IF args.options.page > 0 THEN args.options.page ELSE 0]
        rest == SubSeq(rs, 2, Len(rs))
        r == CASE args.action = "global" -> performGlobalSearch(args, opt, rest)
               [] args.action = "group" -> performGroupSearch(args, opt, rest)
               [] args.action = "project" -> performProjectSearch(args, opt, rest)
    IN  CASE Len(rs) = 0 -> Client
          [] args.action \notin {"global", "group", "project"} ->
               Ret("error", << <<"unsupported action: %s", args.action>> >>)
          [] ~r.done -> r.call
          [] r.err # <<>> -> Ret("error", << <<"search failed: %v", r.err[1]>> >>)
          [] r.text = <<>> ->
               Ret("text", << <<"No results found for query '%s' in scope '%s' (action: %s)",
                                args.query, args.scope, args.action>> >>)
          [] OTHER -> Ret("text", r.text)

(* ------------------------------------------------------------- thin tools *)

listPipelinesHandler(args, rs) ==
    LET projectID == args.project_path
        status == args.status
    IN  CASE status = Nil ->
               Ret("panic", << <<"interface conversion: interface {} is nil, not string">> >>)
          [] Len(rs) = 0 ->
               Call("ListProjectPipelines", projectID,
                    [status |-> IF status # "all" THEN <<status>> ELSE <<>>])
          [] Len(rs) = 1 /\ ~rs[1].ok ->
               Ret("goerror", << <<"failed to list pipelines: %v", rs[1].val>> >>)
          [] OTHER ->
               Ret("text", << <<"Pipelines for project %s:", projectID>> >>
                           \o [k \in 1..Len(rs[1].val) |-> <<"Pipeline #%d", rs[1].val[k]>>])

listGroupUsersHandler(args, rs) ==
    LET groupID == args.group_id
    IN  CASE Len(rs) = 0 ->
               Call("ListGroupMembers", groupID, [per_page |-> 100])
          [] Len(rs) = 1 /\ ~rs[1].ok ->
               Ret("goerror", << <<"failed to list group members: %v", rs[1].val>> >>)
          [] OTHER ->
               Ret("text", << <<"Users in group %s:", groupID>> >>
                           \o [k \in 1..Len(rs[1].val) |-> <<"User: %s", rs[1].val[k]>>])

(* ------------------------------------------------------- commit list tool *)

\* The dates of the model, in the layout 2006-01-02, in calendar order.
Days == <<"2026-11-01", "2026-11-02">>
Dates == {"2026-10-01"} \cup {Days[d] : d \in 1..Len(Days)}

\* time.Parse("2006-01-02", x).
ParseDate(x) ==
    IF x \in Dates
    THEN Success(x)
    ELSE Failure(<<"parsing time %q as \"2006-01-02\": cannot parse", x>>)

\* rs holds the answer of the clock first when the request names no until.
listCommitsHandler(args, rs) ==
    LET asked == args.until = ""
        until == IF asked THEN rs[1].val ELSE args.until
        rest == IF asked THEN SubSeq(rs, 2, Len(rs)) ELSE rs
        ref == DefaultStr(args.ref, "develop")
        sinceTime == ParseDate(args.since)
        untilTime == ParseDate(until)
        commits == rest[1].val
    IN  CASE asked /\ Len(rs) = 0 -> Clock
          [] ~sinceTime.ok ->
               Ret("error", << <<"invalid since date: %v", sinceTime.val>> >>)
          [] ~untilTime.ok ->
               Ret("error", << <<"invalid until date: %v", untilTime.val>> >>)
          [] Len(rest) = 0 ->
               Call("ListCommits", args.project_path,
                    [since |-> sinceTime.val,
                     until |-> <<untilTime.val, " 23:00:00">>,
                     ref_name |-> ref])
          [] ~rest[1].ok ->
               Ret("error", << <<"failed to list commits: %v", rest[1].val>> >>)
          [] OTHER ->
               Ret("text", << <<"Commits for project %s between %s and %s (ref: %s):",
                                args.project_path, args.since, until, ref>> >>
                           \o [k \in 1..Len(commits) |-> <<"Commit: %s", commits[k]>>])

(* ---------------------------------------------------- group variable tool *)

\* The lines every variable report prints about the variable itself.
VariableLines(v) ==
    << <<"Key: %s", v.key>>,
       <<"Variable Type: %s", v.variable_type>>,
       <<"Masked: %t", v.masked>>,
       <<"Environment Scope: %s", v.environment_scope>> >>

\* variable_type of the request: unset when empty, refused unless env_var or
\* file.
VariableTypeOpt(args) ==
    IF args.variable_type = "" THEN Success(<<>>)
    ELSE IF args.variable_type \in {"env_var", "file"} THEN Success(<<args.variable_type>>)
    ELSE Failure(<<"variable_type must be either 'env_var' or 'file'">>)

listGroupVariables(args, rs) ==
    LET variables == rs[1].val
        one(v) == VariableLines(v)
                  \o << IF v.value # "" THEN <<"Value: [HIDDEN]">> ELSE <<"Value: [EMPTY]">> >>
        all[k \in 0..Len(variables)] == IF k = 0 THEN <<>> ELSE all[k - 1] \o one(variables[k])
    IN  CASE Len(rs) = 0 ->
               Call("ListVariables", args.group_id, [opt |-> <<>>])
          [] Len(rs) = 1 /\ ~rs[1].ok ->
               Ret("error", << <<"failed to list group variables: %v", rs[1].val>> >>)
          [] variables = <<>> ->
               Ret("text", << <<"Variables in group %s:", args.group_id>>,
                              <<"No variables found in this group.">> >>)
          [] OTHER ->
               Ret("text", << <<"Variables in group %s:", args.group_id>> >>
                           \o all[Len(variables)])

\* A get handler that prints the value of the variable.
getGroupVariable_ShowsValue(args, rs) ==
    CASE args.key = "" ->
           Ret("error", << Required({"key"}, "get") >>)
      [] Len(rs) = 0 ->
           Call("GetVariable", args.group_id, [key |-> args.key])
      [] Len(rs) = 1 /\ ~rs[1].ok ->
           Ret("error", << <<"failed to get group variable: %v", rs[1].val>> >>)
      [] OTHER ->
           Ret("text", << <<"Variable details for key '%s' in group %s:", args.key,
                            args.group_id>> >>
                       \o VariableLines(rs[1].val)
                       \o << <<"Value: %s", rs[1].val.value>> >>)

getGroupVariable(args, rs) ==
    CASE args.key = "" ->
           Ret("error", << Required({"key"}, "get") >>)
      [] Len(rs) = 0 ->
           Call("GetVariable", args.group_id, [key |-> args.key])
      [] Len(rs) = 1 /\ ~rs[1].ok ->
           Ret("error", << <<"failed to get group variable: %v", rs[1].val>> >>)
      [] OTHER ->
           Ret("text", << <<"Variable details for key '%s' in group %s:", args.key,
                            args.group_id>> >>
                       \o VariableLines(rs[1].val)
                       \o << IF rs[1].val.value # ""
                             THEN <<"Value: [HIDDEN - Use with caution]">>
                             ELSE <<"Value: [EMPTY]">> >>)

createGroupVariable(args, rs) ==
    LET vt == VariableTypeOpt(args)
    IN  CASE args.key = "" ->
               Ret("error", << Required({"key"}, "create") >>)
          [] args.value = "" ->
               Ret("error", << Required({"value"}, "create") >>)
          [] ~vt.ok ->
               Ret("error", << vt.val >>)
          [] Len(rs) = 0 ->
               Call("CreateVariable", args.group_id,
                    [key |-> <<args.key>>,
                     value |-> <<args.value>>,
                     variable_type |-> vt.val,
                     protected |-> args.protected,
                     masked |-> args.masked,
                     raw |-> args.raw,
                     environment_scope |-> OptStr(args.environment_scope),
                     description |-> OptStr(args.description)])
          [] Len(rs) = 1 /\ ~rs[1].ok ->
               Ret("error", << <<"failed to create group variable: %v", rs[1].val>> >>)
          [] OTHER ->
               Ret("text", << <<"Successfully created variable '%s' in group %s", args.key,
                                args.group_id>> >>
                           \o VariableLines(rs[1].val))

updateGroupVariable(args, rs) ==
    LET vt == VariableTypeOpt(args)
    IN  CASE args.key = "" ->
               Ret("error", << Required({"key"}, "update") >>)
          [] ~vt.ok ->
               Ret("error", << vt.val >>)
          [] Len(rs) = 0 ->
               Call("UpdateVariable", args.group_id,
                    [key |-> args.key,
                     opt |-> [value |-> OptStr(args.value),
                              variable_type |-> vt.val,
                              protected |-> args.protected,
                              masked |-> args.masked,
                              raw |-> args.raw,
                              environment_scope |-> OptStr(args.environment_scope),
                              description |-> OptStr(args.description)]])
          [] Len(rs) = 1 /\ ~rs[1].ok ->
               Ret("error", << <<"failed to update group variable: %v", rs[1].val>> >>)
          [] OTHER ->
               Ret("text", << <<"Successfully updated variable '%s' in group %s", args.key,
                                args.group_id>> >>
                           \o VariableLines(rs[1].val))

removeGroupVariable(args, rs) ==
    CASE args.key = "" ->
           Ret("error", << Required({"key"}, "remove") >>)
      [] Len(rs) = 0 ->
           Call("RemoveVariable", args.group_id, [key |-> args.key])
      [] Len(rs) = 1 /\ ~rs[1].ok ->
           Ret("error", << <<"failed to remove group variable: %v", rs[1].val>> >>)
      [] OTHER ->
           Ret("text", << <<"Successfully removed variable '%s' from group %s", args.key,
                            args.group_id>> >>)

\* A dispatcher whose switch has no case for remove.
groupVariableHandler_NoRemove(args, rs) ==
    CASE args.action = "list" -> listGroupVariables(args, rs)
      [] args.action = "get" -> getGroupVariable(args, rs)
      [] args.action = "create" -> createGroupVariable(args, rs)
      [] args.action = "update" -> updateGroupVariable(args, rs)
      [] OTHER ->
           Ret("error", << <<"invalid action: %s. Valid actions are: list, get, create, update, remove",
                             args.action>> >>)

groupVariableHandler(args, rs) ==
    CASE args.action = "list" -> listGroupVariables(args, rs)
      [] args.action = "get" -> getGroupVariable(args, rs)
      [] args.action = "create" -> createGroupVariable(args, rs)
      [] args.action = "update" -> updateGroupVariable(args, rs)
      [] args.action = "remove" -> removeGroupVariable(args, rs)
      [] OTHER ->
           Ret("error", << <<"invalid action: %s. Valid actions are: list, get, create, update, remove",
                             args.action>> >>)

(* ------------------------------------------------------------ registration *)

\* util.ErrorGuard wraps the handlers that return Go errors: it delivers the
\* error, and the panic of a handler, as the text of an error result.
ErrorGuard(move) ==
    IF move.type = "return" /\ move.kind \in {"goerror", "panic"}
    THEN Ret("error", << <<"Error: %v", move.body[1]>> >>)
    ELSE move

\* The handler registered under each tool name, as s.AddTool registers it.
Handler(tool, args, rs) ==
    CASE tool = "manage_merge_request" -> mergeRequestManagementHandler(args, rs)
      [] tool = "gitflow_create_branch" -> gitFlowCreateBranchHandler(args, rs)
      [] tool = "gitflow_finish_branch" -> gitFlowFinishBranchHandler(args, rs)
      [] tool = "manage_deploy_tokens" -> manageDeployTokensHandler(args, rs)
      [] tool = "manage_job_actions" -> jobManageHandler(args, rs)
      [] tool = "gitlab_search" -> unifiedSearchHandler(args, rs)
      [] tool = "manage_group_variable" -> groupVariableHandler(args, rs)
      [] tool = "list_commits" -> listCommitsHandler(args, rs)
      [] tool = "list_pipelines" -> ErrorGuard(listPipelinesHandler(args, rs))
      [] tool = "list_group_users" -> ErrorGuard(listGroupUsersHandler(args, rs))

(* ------------------------------------------------- the declared schemas *)

\* The tools whose requests carry an action.
ConsolidatedTools ==
    {"manage_merge_request", "gitflow_create_branch", "gitflow_finish_branch",
     "manage_deploy_tokens", "manage_job_actions", "gitlab_search",
     "manage_group_variable"}

\* The oneof list the Action field of each argument struct declares.
DeclaredActions(tool) ==
    CASE tool = "manage_merge_request" ->
           {"list", "get", "create", "update", "accept", "rebase", "changes"}
      [] tool = "gitflow_create_branch" -> {"create_release", "create_feature", "create_hotfix"}
      [] tool = "gitflow_finish_branch" -> {"finish_release", "finish_feature", "finish_hotfix"}
      [] tool = "manage_deploy_tokens" -> {"list", "get", "create", "delete"}
      [] tool = "manage_job_actions" -> {"get", "cancel", "retry"}
      [] tool = "gitlab_search" -> {"global", "group", "project"}
      [] tool = "manage_group_variable" -> {"list", "get", "create", "update", "remove"}

\* The fields each struct declares required for the selected action
\* (required, required_if=Action ..., required_with) that the request leaves
\* empty.
MissingFields(tool, args) ==
    LET need(c, v, name) == IF c /\ v = "" THEN {name} ELSE {}
    IN  CASE tool = "gitflow_create_branch" ->
               need(args.action = "create_release", args.create_options.release_version,
                    "release_version")
               \cup need(args.action = "create_feature", args.create_options.feature_name,
                         "feature_name")
               \cup need(args.action = "create_hotfix", args.create_options.hotfix_version,
                         "hotfix_version")
          [] tool = "gitflow_finish_branch" ->
               need(args.action = "finish_release", args.finish_options.release_version,
                    "release_version")
               \cup need(args.action = "finish_feature", args.finish_options.feature_name,
                         "feature_name")
               \cup need(args.action = "finish_hotfix", args.finish_options.hotfix_version,
                         "hotfix_version")
          [] tool = "manage_merge_request" ->
               need(args.action = "create", args.create_options.source_branch, "source_branch")
               \cup need(args.action = "create", args.create_options.target_branch,
                         "target_branch")
               \cup need(args.action = "create", args.create_options.title, "title")
          [] tool = "manage_deploy_tokens" ->
               (IF args.action = "create" /\ args.create_options # <<>>
                THEN need(TRUE, args.create_options[1].name, "create_options.name")
                     \cup (IF args.create_options[1].scopes = <<>>
                           THEN {"create_options.scopes"} ELSE {})
                ELSE {})
          [] tool = "gitlab_search" -> need(TRUE, args.query, "query")
          [] tool = "manage_group_variable" ->
               need(args.action # "list", args.key, "key")
               \cup need(args.action = "create", args.value, "value")
          [] OTHER -> {}

\* The fields of the selected action whose value breaks the constraint the
\* struct declares for it (oneof, datetime, numeric).
InvalidFields(tool, args) ==
    LET bad(c, name) == IF c THEN {name} ELSE {}
    IN  CASE tool = "manage_merge_request" ->
               bad(args.action = "update"
                   /\ args.update_options.state_event \notin {"", "close", "reopen"},
                   "state_event")
               \cup bad(args.action = "list"
                        /\ args.list_options.state \notin {"", "opened", "closed", "merged", "all"},
                        "state")
          [] tool = "manage_deploy_tokens" ->
               bad(args.scope.type \notin {"project", "group"}, "scope.type")
               \cup bad(args.action \in {"get", "delete"} /\ args.token_id # <<>>
                        /\ ~Atoi(args.token_id[1].id).ok, "token_id.id")
               \cup bad(args.action = "create" /\ args.create_options # <<>>
                        /\ args.create_options[1].expires_at # ""
                        /\ ~ParseRFC3339(args.create_options[1].expires_at).ok,
                        "create_options.expires_at")
          [] tool = "gitlab_search" ->
               bad(args.scope \notin {"projects", "merge_requests", "commits", "blobs", "users",
                                      "issues", "milestones", "snippets", "wikis", "notes"},
                   "scope")
          [] tool = "manage_group_variable" ->
               bad(args.variable_type \notin {"", "env_var", "file"}, "variable_type")
          [] OTHER -> {}

\* The request with the defaults the tool definitions document filled in for
\* the fields it leaves out: list state "all", pipeline status "all", search
\* per_page 20 and page 1, development branch "develop", production branch
\* "master".
WithDocumentedDefaults(r) ==
    LET a == r.args
        branches(o) == [o EXCEPT !.development_branch = DefaultStr(@, "develop"),
                                 !.production_branch = DefaultStr(@, "master")]
    IN  CASE r.tool = "manage_merge_request" /\ a.action = "list" ->
               [r EXCEPT !.args.list_options.state = DefaultStr(@, "all")]
          [] r.tool = "list_pipelines" ->
               [r EXCEPT !.args.status = IF @ = Nil THEN "all" ELSE @]
          [] r.tool = "gitlab_search" ->
               [r EXCEPT !.args.options.per_page = IF @ = 0 THEN 20 ELSE @,
                         !.args.options.page = IF @ = 0 THEN 1 ELSE @]
          [] r.tool = "gitflow_create_branch" ->
               [r EXCEPT !.args.create_options = branches(@)]
          [] r.tool = "gitflow_finish_branch" ->
               [r EXCEPT !.args.finish_options = branches(@)]
          [] OTHER -> r

(* ------------------------------------------------------ the Backend Client *)

\* A group variable as the remote service stores it.
StoredVariable ==
    [key |-> "API_KEY", value |-> "s3cr3t", variable_type |-> "env_var", masked |-> TRUE,
     environment_scope |-> "*"]

\* The same variable with the values the remote service may hold for it.
StoredVariables == {[StoredVariable EXCEPT !.value = v] : v \in {"", "s3cr3t", "t0ken"}}

\* What the remote service may answer a successful call with.
OkValues(m) ==
    LET mr == [iid |-> 7, title |-> "Fix", state |-> "opened"]
        job == [id |-> 42, name |-> "build", status |-> "running"]
    IN  CASE m.op = "GetBranch" -> {m.params.branch}
          [] m.op \in {"DeleteBranch", "DeleteMergeRequest"} -> {"deleted"}
          [] m.op = "CreateMergeRequest" -> {CreatedMR(m.params)}
          [] m.op = "ListBranches" ->
               LET exact == m.params.search
                   longer == <<exact[1], exact[2], "-rc1">>
               IN  {<<>>, <<exact>>, <<longer>>, <<longer, exact>>}
          [] m.op = "CreateBranch" -> {[name |-> m.params.branch, commit |-> "abc123"]}
          [] m.op = "ListProjectMergeRequests" -> {<<>>, <<mr>>}
          [] m.op \in {"GetMergeRequest", "UpdateMergeRequest", "AcceptMergeRequest",
                       "RebaseMergeRequest", "GetMergeRequestChanges"} -> {mr}
          [] m.op = "ListMergeRequestDiffs" -> {<<>>, <<"main.go">>}
          [] m.op = "Search" -> {<<>>, <<"hit">>}
          [] m.op \in {"ListProjectDeployTokens", "ListGroupDeployTokens"} -> {<<>>, <<"ci-token">>}
          [] m.op \in {"GetProjectDeployToken", "GetGroupDeployToken",
                       "CreateProjectDeployToken", "CreateGroupDeployToken"} -> {"ci-token"}
          [] m.op \in {"DeleteProjectDeployToken", "DeleteGroupDeployToken"} -> {"deleted"}
          [] m.op \in {"GetJob", "CancelJob", "RetryJob"} -> {job}
          [] m.op = "ListProjectPipelines" -> {<<>>, <<101>>}
          [] m.op = "ListGroupMembers" -> {<<>>, <<"alice">>}
          [] m.op = "ListVariables" ->
               {<<>>} \cup {<<v>> : v \in StoredVariables}
               \cup {<<v, StoredVariable>> : v \in StoredVariables}
          [] m.op \in {"GetVariable", "CreateVariable", "UpdateVariable"} -> StoredVariables
          [] m.op = "RemoveVariable" -> {"deleted"}
          [] m.op = "ListCommits" -> {<<>>, <<"abc123">>}

(* ------------------------------------------------------------ the requests *)

Project == "grp/app"

MRArgs ==
    [action |-> "", project_path |-> Project, mr_iid |-> "",
     list_options |-> [state |-> ""],
     create_options |-> [source_branch |-> "", target_branch |-> "", title |-> "",
                         description |-> ""],
     update_options |-> [title |-> "", description |-> "", target_branch |-> "",
                         state_event |-> "", assignee_id |-> 0, milestone_id |-> 0,
                         labels |-> "", remove_source_branch |-> FALSE, squash |-> FALSE,
                         discussion_locked |-> FALSE],
     accept_options |-> [merge_commit_message |-> "", squash |-> FALSE],
     rebase_options |-> [skip_ci |-> FALSE],
     changes_options |-> [access_raw_diffs |-> FALSE, unidiff |-> FALSE]]

MRRequestArgs ==
    {[MRArgs EXCEPT !.action = "list", !.list_options.state = st] :
        st \in {"", "all", "opened"}}
    \cup {[MRArgs EXCEPT !.action = a, !.mr_iid = id, !.rebase_options.skip_ci = sk] :
            a \in {"get", "accept", "rebase", "changes"}, id \in {"", "7", "abc"},
            sk \in BOOLEAN}
    \cup {[MRArgs EXCEPT !.action = "create", !.create_options =
              [source_branch |-> sb, target_branch |-> tb, title |-> t, description |-> d]] :
            sb \in {"", "feature/x"}, tb \in {"", "main"}, t \in {"", "Fix"},
            d \in {"", "why"}}
    \cup {[MRArgs EXCEPT !.action = "update", !.mr_iid = id,
              !.update_options.title = t, !.update_options.state_event = se,
              !.update_options.labels = l, !.update_options.assignee_id = as,
              !.update_options.squash = sq] :
            id \in {"", "7"}, t \in {"", "New"}, se \in {"", "close", "archive"},
            l \in {"", "bug"}, as \in {0, 5}, sq \in BOOLEAN}
    \cup {[MRArgs EXCEPT !.action = a, !.mr_iid = "7",
              !.create_options.title = "Fix", !.update_options.state_event = "close"] :
            a \in {"merge", "", "list", "get"}}

FlowFinishArgs ==
    {[action |-> a, project_path |-> Project,
      finish_options |-> [release_version |-> rv, feature_name |-> fn, hotfix_version |-> hv,
                          target_branch |-> tb, delete_branch |-> del,
                          development_branch |-> dev, production_branch |-> prod]] :
        a \in {"finish_release", "finish_feature", "finish_hotfix", "finish_all"},
        rv \in {"", "1.2.0"}, fn \in {"", "login"}, hv \in {"", "1.2.1"},
        tb \in {"", "staging"}, del \in BOOLEAN, dev \in {"", "dev", "main"},
        prod \in {"", "main"}}

FlowCreateArgs ==
    {[action |-> a, project_path |-> Project,
      create_options |-> [release_version |-> rv, feature_name |-> fn, hotfix_version |-> hv,
                          base_branch |-> base, development_branch |-> dev,
                          production_branch |-> prod]] :
        a \in {"create_release", "create_feature", "create_hotfix", "create_tag"},
        rv \in {"", "1.2.0"}, fn \in {"", "login"}, hv \in {"", "1.2.1"},
        base \in {"", "trunk"}, dev \in {"", "dev"}, prod \in {"", "main"}}

DeployTokenCreateOptions ==
    {<<>>} \cup
    {<<[name |-> n, username |-> "", expires_at |-> e, scopes |-> sc]>> :
        n \in {"", "ci"}, e \in {"", "2030-01-01T00:00:00Z", "tomorrow"},
        sc \in {<<>>, <<"read_repository">>}}

DeployTokenArgs ==
    {[action |-> a,
      scope |-> [type |-> ty, project_path |-> IF tgt THEN Project ELSE "",
                 group_id |-> IF tgt THEN "grp" ELSE ""],
      token_id |-> tid, create_options |-> co] :
        a \in {"list", "get", "create", "delete", "revoke"},
        ty \in {"project", "group", "user"}, tgt \in BOOLEAN,
        tid \in {<<>>, <<[id |-> "5"]>>, <<[id |-> "x"]>>},
        co \in DeployTokenCreateOptions}

JobArgs ==
    {[project_path |-> Project, job_id |-> 42, action |-> a] :
        a \in {"get", "cancel", "retry", "GET", "stop", ""}}

SearchScopes ==
    {"projects", "merge_requests", "commits", "blobs", "users", "issues", "milestones",
     "snippets", "wikis", "notes"}

SearchArgs ==
    {[action |-> a, query |-> q, scope |-> sc, ref |-> "",
      context |-> [group_id |-> "grp", project_id |-> Project],
      options |-> [per_page |-> pp, page |-> pg]] :
        a \in {"global", "group", "project", "everywhere"}, q \in {"", "bug"},
        sc \in SearchScopes \cup {"tags"}, pp \in {0, 50}, pg \in {0, 1}}

PipelineArgs == {[project_path |-> Project, status |-> st] : st \in {"all", "running", Nil}}

GroupUsersArgs == {[group_id |-> "grp"]}

GroupVariableArgs ==
    {[action |-> a, group_id |-> "grp", key |-> k, value |-> v, variable_type |-> vt,
      protected |-> <<>>, masked |-> m, raw |-> <<>>, environment_scope |-> es,
      description |-> ""] :
        a \in {"list", "get", "create", "update", "remove", "purge"},
        k \in {"", "API_KEY"}, v \in {"", "s3cr3t"}, vt \in {"", "file", "secret"},
        m \in {<<>>, <<TRUE>>}, es \in {"", "production"}}

ListCommitsArgs ==
    {[project_path |-> Project, since |-> si, until |-> un, ref |-> rf] :
        si \in {"2026-10-01", "yesterday"}, un \in {"", "2026-11-01", "soon"},
        rf \in {"", "main"}}

Req(tool, argset) == {[tool |-> tool, args |-> a] : a \in argset}

Requests ==
    Req("manage_merge_request", MRRequestArgs)
    \cup Req("gitflow_finish_branch", FlowFinishArgs)
    \cup Req("gitflow_create_branch", FlowCreateArgs)
    \cup Req("manage_deploy_tokens", DeployTokenArgs)
    \cup Req("manage_job_actions", JobArgs)
    \cup Req("gitlab_search", SearchArgs)
    \cup Req("manage_group_variable", GroupVariableArgs)
    \cup Req("list_commits", ListCommitsArgs)
    \cup Req("list_pipelines", PipelineArgs)
    \cup Req("list_group_users", GroupUsersArgs)

\* The requests the transport has in flight together.
ConcRequests ==
    {r \in Req("gitlab_search", SearchArgs) :
        r.args.query = "bug" /\ r.args.options = [per_page |-> 0, page |-> 0]
        /\ r.args.scope = "projects"
        /\ r.args.action \in {"global", "everywhere"}}
    \cup {r \in Req("manage_job_actions", JobArgs) : r.args.action = "get"}
    \cup {r \in Req("manage_merge_request", MRRequestArgs) :
            r.args = [MRArgs EXCEPT !.action = "get", !.mr_iid = "7"]}
    \cup {r \in Req("list_commits", ListCommitsArgs) :
            r.args = [project_path |-> Project, since |-> "2026-10-01", until |-> "",
                      ref |-> ""]}
    \cup {r \in Req("gitflow_finish_branch", FlowFinishArgs) :
            r.args.action = "finish_release"
            /\ r.args.finish_options = [release_version |-> "1.2.0", feature_name |-> "",
                                        hotfix_version |-> "", target_branch |-> "",
                                        delete_branch |-> TRUE, development_branch |-> "",
                                        production_branch |-> ""]}

(* ------------------------------------------------------------- the process *)

EnvTokens == {"", "glpat-secret"}
EnvURLs == {"", "https://gitlab.example", "://gitlab"}

\* gitlab.NewClient(token, gitlab.WithBaseURL(host)): the base URL must parse.
NewClientFails(host) == host = "://gitlab"

\* A formatter at rest with the Domain Result d it is given: the value as the
\* caller holds it, the object behind the pointers, the position of the loop,
\* the strings.Builder and the texts returned so far.
Formatter(kind, d) ==
    [kind |-> kind, given |-> d, data |-> d, idx |-> 0, out |-> <<>>, texts |-> <<>>,
     at |-> "idle"]

Init ==
    /\ fmt = Formatter("none", <<>>)
    /\ today = 1
    /\ env \in [token : EnvTokens, url : EnvURLs]
    /\ proc = "starting"
    /\ onceDone = FALSE
    /\ onceM = {}
    /\ oncePc = [i \in Inv |-> "out"]
    /\ clientHandle = 0
    /\ constructions = 0
    /\ pc = [i \in Inv |-> "idle"]
    /\ req = [i \in Inv |-> NoReq]
    /\ resps = [i \in Inv |-> <<>>]
    /\ calls = [i \in Inv |-> <<>>]
    /\ handle = [i \in Inv |-> 0]
    /\ result = [i \in Inv |-> NoResult]

\* main: the required environment variables are checked before serving.
MissingEnvs(e) ==
    (IF e.token = "" THEN {"GITLAB_TOKEN"} ELSE {}) \cup (IF e.url = "" THEN {"GITLAB_URL"} ELSE {})

\* A main that starts serving without the check.
Main_Unchecked ==
    /\ proc = "starting"
    /\ proc' = "serving"
    /\ UNCHANGED <<fmt, today, env, onceDone, onceM, oncePc, clientHandle, constructions,
                   pc, req, resps, calls, handle, result>>

Main ==
    /\ proc = "starting"
    /\ proc' = IF MissingEnvs(env) # {} THEN "exited" ELSE "serving"
    /\ UNCHANGED <<fmt, today, env, onceDone, onceM, oncePc, clientHandle, constructions,
                   pc, req, resps, calls, handle, result>>

\* The calendar day changes.
Midnight ==
    /\ today < Len(Days)
    /\ today' = today + 1
    /\ UNCHANGED <<fmt, env, proc, onceDone, onceM, oncePc, clientHandle, constructions,
                   pc, req, resps, calls, handle, result>>

Accept(i, r) ==
    /\ proc = "serving"
    /\ pc[i] = "idle"
    /\ \A j \in Inv : j < i => pc[j] # "idle"
    /\ pc' = [pc EXCEPT ![i] = "run"]
    /\ req' = [req EXCEPT ![i] = r]
    /\ UNCHANGED <<fmt, today, env, proc, onceDone, onceM, oncePc, clientHandle, constructions,
                   resps, calls, handle, result>>

\* One request at a time, any request.
Start(i) ==
    /\ \A j \in Inv : pc[j] = "idle"
    /\ \E r \in Requests : Accept(i, r)

\* Requests in flight together.
StartConc(i) == \E r \in ConcRequests : Accept(i, r)

\* The next move of invocation i.
Move(i) == Handler(req[i].tool, req[i].args, resps[i])

Running(i) == proc = "serving" /\ pc[i] = "run"

\* A lazy initialisation that takes the mutex on every request for the value.
OnceFastPath_Never(i) == FALSE

\* sync.Once.Do, fast path: done is already set and the mutex is not touched.
OnceFastPath(i) == onceDone

\* A first-use initialisation without the mutex.
OnceMayEnter_Unguarded(i) == TRUE

\* sync.Once.doSlow may take the mutex when no other goroutine holds it.
OnceMayEnter(i) == onceM = {}

\* util.GitlabClient(), slow path: done was read unset, go on to lock the mutex.
OnceDoSlow(i) ==
    /\ Running(i)
    /\ Move(i).type \in {"call", "client"}
    /\ oncePc[i] = "out"
    /\ ~OnceFastPath(i)
    /\ oncePc' = [oncePc EXCEPT ![i] = "wait"]
    /\ UNCHANGED <<fmt, today, env, proc, onceDone, onceM, clientHandle, constructions,
                   pc, req, resps, calls, handle, result>>

\* doSlow holding the mutex: done still unset, it runs the constructor; done
\* set meanwhile, it unlocks and has the value.
OnceLock(i) ==
    /\ proc = "serving"
    /\ oncePc[i] = "wait"
    /\ OnceMayEnter(i)
    /\ IF onceDone
       THEN /\ oncePc' = [oncePc EXCEPT ![i] = "got"]
            /\ UNCHANGED onceM
       ELSE /\ oncePc' = [oncePc EXCEPT ![i] = "f"]
            /\ onceM' = onceM \cup {i}
    /\ UNCHANGED <<fmt, today, env, proc, onceDone, clientHandle, constructions,
                   pc, req, resps, calls, handle, result>>

\* The constructor given to sync.OnceValue: log.Fatal ends the process; on
\* success done is set and the mutex released.
NewClient(i) ==
    /\ proc = "serving"
    /\ oncePc[i] = "f"
    /\ IF env.token = "" \/ env.url = "" \/ NewClientFails(env.url)
       THEN /\ proc' = "exited"
            /\ UNCHANGED <<onceDone, onceM, oncePc, clientHandle, constructions>>
       ELSE /\ constructions' = constructions + 1
            /\ clientHandle' = constructions + 1
            /\ onceDone' = TRUE
            /\ onceM' = onceM \ {i}
            /\ oncePc' = [oncePc EXCEPT ![i] = "got"]
            /\ UNCHANGED proc
    /\ UNCHANGED <<fmt, today, env, pc, req, resps, calls, handle, result>>

\* util.GitlabClient() has returned the value to invocation i.
HasClient(i) == oncePc[i] = "got" \/ (oncePc[i] = "out" /\ OnceFastPath(i))

\* util.GitlabClient() where the handler only takes the client.
GetClient(i) ==
    /\ Running(i)
    /\ Move(i).type = "client"
    /\ HasClient(i)
    /\ handle' = [handle EXCEPT ![i] = clientHandle]
    /\ resps' = [resps EXCEPT ![i] = Append(@, Success(clientHandle))]
    /\ oncePc' = [oncePc EXCEPT ![i] = "out"]
    /\ UNCHANGED <<fmt, today, env, proc, onceDone, onceM, clientHandle, constructions,
                   pc, req, calls, result>>

\* util.GitlabClient().X(...): the client and the call, which the remote
\* service answers with a value or an error.
BackendCall(i) ==
    /\ Running(i)
    /\ Move(i).type = "call"
    /\ HasClient(i)
    /\ \E ok \in BOOLEAN :
         \E v \in IF ok THEN OkValues(Move(i)) ELSE BackendErrors :
            /\ resps' = [resps EXCEPT ![i] = Append(@, [ok |-> ok, val |-> v])]
            /\ calls' = [calls EXCEPT ![i] =
                            Append(@, [op |-> Move(i).op, target |-> Move(i).target,
                                       params |-> Move(i).params, ok |-> ok])]
    /\ handle' = [handle EXCEPT ![i] = clientHandle]
    /\ oncePc' = [oncePc EXCEPT ![i] = "out"]
    /\ UNCHANGED <<fmt, today, env, proc, onceDone, onceM, clientHandle, constructions,
                   pc, req, result>>

\* time.Now().Format("2006-01-02"): the handler has the date of the day.
TimeNow(i) ==
    /\ Running(i)
    /\ Move(i).type = "clock"
    /\ resps' = [resps EXCEPT ![i] = Append(@, Success(Days[today]))]
    /\ UNCHANGED <<fmt, today, env, proc, onceDone, onceM, oncePc, clientHandle, constructions,
                   pc, req, calls, handle, result>>

\* The handler returns its result to the transport.
Return(i) ==
    /\ Running(i)
    /\ Move(i).type = "return"
    /\ result' = [result EXCEPT ![i] = [kind |-> Move(i).kind, body |-> Move(i).body]]
    /\ pc' = [pc EXCEPT ![i] = "done"]
    /\ UNCHANGED <<fmt, today, env, proc, onceDone, onceM, oncePc, clientHandle, constructions,
                   req, resps, calls, handle>>

\* A transport that keeps the responses of the answered invocation in its slot.
Respond_KeepsResponses(i) ==
    /\ proc = "serving"
    /\ pc[i] = "done"
    /\ pc' = [pc EXCEPT ![i] = "idle"]
    /\ req' = [req EXCEPT ![i] = NoReq]
    /\ calls' = [calls EXCEPT ![i] = <<>>]
    /\ handle' = [handle EXCEPT ![i] = 0]
    /\ result' = [result EXCEPT ![i] = NoResult]
    /\ UNCHANGED <<fmt, today, env, proc, onceDone, onceM, oncePc, clientHandle, constructions, resps>>

\* The transport has written the response; nothing of the invocation is kept.
Respond(i) ==
    /\ proc = "serving"
    /\ pc[i] = "done"
    /\ pc' = [pc EXCEPT ![i] = "idle"]
    /\ req' = [req EXCEPT ![i] = NoReq]
    /\ resps' = [resps EXCEPT ![i] = <<>>]
    /\ calls' = [calls EXCEPT ![i] = <<>>]
    /\ handle' = [handle EXCEPT ![i] = 0]
    /\ result' = [result EXCEPT ![i] = NoResult]
    /\ UNCHANGED <<fmt, today, env, proc, onceDone, onceM, oncePc, clientHandle, constructions>>

Step(i) ==
    \/ OnceDoSlow(i) \/ OnceLock(i) \/ NewClient(i)
    \/ GetClient(i) \/ TimeNow(i) \/ BackendCall(i) \/ Return(i) \/ Respond(i)

Next == Main \/ Midnight \/ \E i \in Inv : Start(i) \/ Step(i)

Spec == Init /\ [][Next]_vars

\* The serial server with every invocation's goroutine scheduled and every
\* Backend Client call answered: a step of an invocation that stays possible
\* is eventually taken.
SpecFair == Init /\ [][Next]_vars /\ \A i \in Inv : WF_vars(Step(i))

NextConc == Main \/ Midnight \/ \E i \in Inv : StartConc(i) \/ Step(i)

SpecConc == Init /\ [][NextConc]_vars

\* Two clients asking for the same new branch at the same time.
RaceRequests ==
    {r \in Req("gitflow_create_branch", FlowCreateArgs) :
        /\ r.args.action \in {"create_release", "create_hotfix"}
        /\ r.args.create_options \in
              {[release_version |-> "1.2.0", feature_name |-> "", hotfix_version |-> "",
                base_branch |-> "", development_branch |-> "", production_branch |-> ""],
               [release_version |-> "", feature_name |-> "", hotfix_version |-> "1.2.1",
                base_branch |-> "trunk", development_branch |-> "", production_branch |-> ""]}}

StartRace(i) == \E r \in RaceRequests : Accept(i, r)

\* The steps of a create invocation: it reads no clock and takes the client
\* with each call.
StepRace(i) ==
    \/ OnceDoSlow(i) \/ OnceLock(i) \/ NewClient(i)
    \/ BackendCall(i) \/ Return(i) \/ Respond(i)

NextRace == Main \/ \E i \in Inv : StartRace(i) \/ StepRace(i)

SpecRace == Init /\ [][NextRace]_vars

(* ------------------------------------------------------------- formatters *)

server == <<today, env, proc, onceDone, onceM, oncePc, clientHandle, constructions,
            pc, req, resps, calls, handle, result>>

\* t.Format("2006-01-02 15:04:05") on the instants of the model.
FormatTime(t) ==
    CASE t = <<2026, 10, 1, 9, 30, 0>> -> "2026-10-01 09:30:00"
      [] t = <<2026, 11, 1, 0, 0, 0>> -> "2026-11-01 00:00:00"

\* The projects and jobs a formatter may be given.
Projects ==
    {[id |-> 1, name |-> "app", path_with_namespace |-> "grp/app", description |-> d,
      web_url |-> "https://gitlab.example/grp/app", last_activity_at |-> la] :
        d \in {"", "An app"}, la \in {<<>>, << <<2026, 10, 1, 9, 30, 0>> >>}}

ProjectLists == UNION {[1..n -> Projects] : n \in 0..MaxProjects}

Jobs ==
    {[id |-> 42, name |-> "build", status |-> "success", stage |-> "test", ref |-> "main",
      created_at |-> c, started_at |-> st, finished_at |-> f, duration |-> 12,
      web_url |-> "https://gitlab.example/grp/app/-/jobs/42"] :
        c \in {<<>>, << <<2026, 10, 1, 9, 30, 0>> >>},
        st \in {<<>>, << <<2026, 10, 1, 9, 30, 0>> >>},
        f \in {<<>>, << <<2026, 11, 1, 0, 0, 0>> >>}}

InitFormat ==
    /\ fmt \in {Formatter("projects", d) : d \in ProjectLists}
               \cup {Formatter("job", j) : j \in Jobs}
    /\ today = 1
    /\ env = [token |-> "glpat-secret", url |-> "https://gitlab.example"]
    /\ proc = "serving"
    /\ onceDone = FALSE
    /\ onceM = {}
    /\ oncePc = [i \in Inv |-> "out"]
    /\ clientHandle = 0
    /\ constructions = 0
    /\ pc = [i \in Inv |-> "idle"]
    /\ req = [i \in Inv |-> NoReq]
    /\ resps = [i \in Inv |-> <<>>]
    /\ calls = [i \in Inv |-> <<>>]
    /\ handle = [i \in Inv |-> 0]
    /\ result = [i \in Inv |-> NoResult]

\* formatProjectsResult up to its loop: "" for no project, else the count line.
formatProjectsResult_Enter ==
    /\ fmt.kind = "projects"
    /\ fmt.at = "idle"
    /\ Len(fmt.texts) < MaxRuns
    /\ fmt' = IF Len(fmt.data) = 0
              THEN [fmt EXCEPT !.texts = Append(@, <<>>)]
              ELSE [fmt EXCEPT !.at = "loop", !.idx = 1,
                               !.out = << <<"Found %d project(s):", Len(fmt.data)>> >>]
    /\ UNCHANGED server

\* The lines of one project.
ProjectLines(k, project) ==
    << <<"%d. **%s** (%s)", k, project.name, project.path_with_namespace>>,
       <<"   ID: %d", project.id>> >>
    \o (IF project.description # ""
        THEN << <<"   Description: %s", project.description>> >> ELSE <<>>)
    \o << <<"   URL: %s", project.web_url>> >>
    \o (IF project.last_activity_at # <<>>
        THEN << <<"   Last Activity: %s", FormatTime(project.last_activity_at[1])>> >>
        ELSE <<>>)

\* A loop body that takes the project it prints off the slice.
formatProjectsResult_Loop_Consumes ==
    /\ fmt.at = "loop"
    /\ fmt.data # <<>>
    /\ fmt' = [fmt EXCEPT !.out = @ \o ProjectLines(fmt.idx, Head(fmt.data)),
                          !.idx = @ + 1,
                          !.data = Tail(@)]
    /\ UNCHANGED server

\* One round of the loop over the projects.
formatProjectsResult_Loop ==
    /\ fmt.at = "loop"
    /\ fmt.idx <= Len(fmt.data)
    /\ fmt' = [fmt EXCEPT !.out = @ \o ProjectLines(fmt.idx, fmt.data[fmt.idx]),
                          !.idx = @ + 1]
    /\ UNCHANGED server

\* return result.String()
formatProjectsResult_Return ==
    /\ fmt.at = "loop"
    /\ ~ENABLED formatProjectsResult_Loop
    /\ fmt' = [fmt EXCEPT !.at = "idle", !.idx = 0, !.out = <<>>,
                          !.texts = Append(@, fmt.out)]
    /\ UNCHANGED server

formatJobInfo ==
    /\ fmt.kind = "job"
    /\ fmt.at = "idle"
    /\ Len(fmt.texts) < MaxRuns
    /\ LET job == fmt.data
           stamp(label, t) == IF t # <<>> THEN << <<label, FormatTime(t[1])>> >> ELSE <<>>
       IN  fmt' = [fmt EXCEPT !.texts = Append(@,
                      << <<"Job #%d - %s", job.id, job.name>>,
                         <<"Status: %s", job.status>>,
                         <<"Stage: %s", job.stage>>,
                         <<"Ref: %s", job.ref>> >>
                      \o stamp("Created: %s", job.created_at)
                      \o stamp("Started: %s", job.started_at)
                      \o stamp("Finished: %s", job.finished_at)
                      \o << <<"Duration: %.2f seconds", job.duration>>,
                            <<"URL: %s", job.web_url>> >>)]
    /\ UNCHANGED server

NextFormat ==
    \/ formatProjectsResult_Enter
    \/ formatProjectsResult_Loop
    \/ formatProjectsResult_Return
    \/ formatJobInfo

\* The formatters applied, up to MaxRuns times, to one Domain Result.
SpecFormat == InitFormat /\ [][NextFormat]_vars

(* ---------------------------------------------------- request validation *)

\* Invocation i is in flight or has returned and not yet been answered.
Live(i) == pc[i] \in {"run", "done"}

\* The request of invocation i selects an action its tool declares.
SelectsDeclaredAction(i) ==
    /\ req[i].tool \in ConsolidatedTools
    /\ req[i].args.action \in DeclaredActions(req[i].tool)

\* The field sets the "... required for ..." messages of an error result name.
NamedMissing(res) ==
    {res.body[k][2] : k \in {n \in 1..Len(res.body) :
                                res.body[n][1] \in {"%s required for %s action",
                                                    "%s is required for %s scope"}}}

\* The result rejects the action as unsupported.
IsUnsupportedAction(res, action) ==
    /\ res.kind = "error"
    /\ res.body[1][1] \in {"unsupported action: %s",
                           "invalid action '%s'. Valid actions are: get, cancel, retry",
                           "invalid action: %s. Valid actions are: list, get, create, update, remove"}
    /\ res.body[1][2] = action

\* C1: a request that violates a validation rule of its selected action (a
\* required field empty, a field value malformed) is rejected and no Backend
\* Client call is made at any point of the invocation.
C1_InvalidRequestMakesNoCall ==
    \A i \in Inv :
        (/\ Live(i)
         /\ SelectsDeclaredAction(i)
         /\ MissingFields(req[i].tool, req[i].args) \cup InvalidFields(req[i].tool, req[i].args) # {})
        => /\ calls[i] = <<>>
           /\ pc[i] = "done" => result[i].kind = "error"

\* C2: a request whose action is outside the tool's declared enum is rejected
\* with an UnsupportedAction error and no Backend Client call occurs, whatever
\* the other fields contain.
C2_UnsupportedActionRejected ==
    \A i \in Inv :
        (/\ Live(i)
         /\ req[i].tool \in ConsolidatedTools
         /\ req[i].args.action \notin DeclaredActions(req[i].tool))
        => /\ calls[i] = <<>>
           /\ pc[i] = "done" => IsUnsupportedAction(result[i], req[i].args.action)

\* C3: a request that selects an action and leaves empty exactly one of the
\* fields required for it is rejected with a MissingField error that names
\* exactly that field.
C3_MissingFieldNamed ==
    \A i \in Inv :
        (/\ pc[i] = "done"
         /\ SelectsDeclaredAction(i)
         /\ InvalidFields(req[i].tool, req[i].args) = {}
         /\ Cardinality(MissingFields(req[i].tool, req[i].args)) = 1)
        => /\ result[i].kind = "error"
           /\ NamedMissing(result[i]) = {MissingFields(req[i].tool, req[i].args)}

\* C4: a request in which a field value violates its declared field-level
\* constraint is rejected with an InvalidField error, as a merge-request
\* update with state_event "archive" is.
C4_InvalidFieldRejected ==
    \A i \in Inv :
        (/\ Live(i)
         /\ SelectsDeclaredAction(i)
         /\ MissingFields(req[i].tool, req[i].args) = {}
         /\ InvalidFields(req[i].tool, req[i].args) # {})
        => /\ calls[i] = <<>>
           /\ pc[i] = "done" => result[i].kind = "error"

(* ------------------------------------------------------ failure handling *)

\* Invocation i runs a finish handler that creates two merge requests.
TwoStepFinish(i) ==
    /\ req[i].tool = "gitflow_finish_branch"
    /\ req[i].args.action \in {"finish_release", "finish_hotfix"}

\* The first merge-request creation of invocation i succeeded, the second failed.
FirstCreatedSecondFailed(i) ==
    /\ Len(calls[i]) >= 3
    /\ calls[i][2].op = "CreateMergeRequest" /\ calls[i][2].ok
    /\ calls[i][3].op = "CreateMergeRequest" /\ ~calls[i][3].ok

\* Piece k of a text is the given format printed with the two given values.
IsPiece(body, k, format, v1, v2) ==
    /\ body[k][1] = format
    /\ body[k][2] = v1
    /\ body[k][3] = v2

\* C5: in finish_release and finish_hotfix, when the first merge-request
\* creation succeeds and the second fails, the result is a normal text result
\* that reports the first creation (target and merge-request number) and,
\* after it, the failure of the second (target and error message).
C5_PartialFinishReported ==
    \A i \in Inv :
        (pc[i] = "done" /\ TwoStepFinish(i) /\ FirstCreatedSecondFailed(i))
        => /\ result[i].kind = "text"
           /\ \E j, k \in 1..Len(result[i].body) :
                 /\ j < k
                 /\ IsPiece(result[i].body, j, "Created MR to %s: !%d",
                            calls[i][2].params.target_branch, resps[i][2].val.iid)
                 /\ IsPiece(result[i].body, k, "Failed to create MR to %s: %v",
                            calls[i][3].params.target_branch, resps[i][3].val)

C5_Witness ==
    \E i \in Inv :
        /\ pc[i] = "done" /\ TwoStepFinish(i) /\ FirstCreatedSecondFailed(i)
        /\ req[i].args.action = "finish_hotfix"
        /\ result[i].kind = "text"

\* C6: in a finish handler, no call that follows a successful merge-request
\* creation undoes it, whatever fails later: the only calls that follow are
\* the other merge-request creation and the requested deletion of the source
\* branch.
C6_NoCompensatingCall ==
    \A i \in Inv :
        (Live(i) /\ req[i].tool = "gitflow_finish_branch")
        => \A j, k \in 1..Len(calls[i]) :
              (j < k /\ calls[i][j].op = "CreateMergeRequest" /\ calls[i][j].ok)
              => \/ calls[i][k].op = "CreateMergeRequest"
                 \/ /\ calls[i][k].op = "DeleteBranch"
                    /\ req[i].args.finish_options.delete_branch
                    /\ calls[i][k].params.branch = calls[i][j].params.source_branch

C6_Witness ==
    \E i \in Inv :
        /\ pc[i] = "done" /\ TwoStepFinish(i) /\ FirstCreatedSecondFailed(i)
        /\ Len(calls[i]) = 4
        /\ calls[i][4].op = "DeleteBranch"

\* The failures the finish handlers write into their report and go on from:
\* a merge-request creation of finish_release or finish_hotfix, and the
\* branch deletion of any finish handler.
ReportedAndContinued(r, c) ==
    /\ r.tool = "gitflow_finish_branch"
    /\ \/ c.op = "DeleteBranch"
       \/ c.op = "CreateMergeRequest" /\ r.args.action \in {"finish_release", "finish_hotfix"}

\* C7 as stated: in every handler a failed Backend Client call is the last
\* call of the invocation, and the result is an error with nothing else in it.
C7_FailFastEverywhere ==
    \A i \in Inv :
        Live(i) =>
            \A k \in 1..Len(calls[i]) :
                ~calls[i][k].ok
                => /\ Len(calls[i]) = k
                   /\ pc[i] = "done" => (result[i].kind = "error" /\ Len(result[i].body) = 1)

\* C7: a failed Backend Client call is the last call of the invocation and
\* the result is an error with nothing else in it, except for the failures
\* the finish handlers report and go on from, which end in a text result.
C7_FailFastExceptFinishSteps ==
    \A i \in Inv :
        Live(i) =>
            \A k \in 1..Len(calls[i]) :
                ~calls[i][k].ok
                => IF ReportedAndContinued(req[i], calls[i][k])
                   THEN pc[i] = "done" => result[i].kind = "text"
                   ELSE /\ Len(calls[i]) = k
                        /\ pc[i] = "done" => (result[i].kind = "error" /\ Len(result[i].body) = 1)

C7_Witness ==
    \E i \in Inv :
        /\ pc[i] = "done"
        /\ req[i].tool = "manage_merge_request" /\ req[i].args.action = "get"
        /\ Len(calls[i]) = 2 /\ calls[i][1].ok /\ ~calls[i][2].ok
        /\ result[i].kind = "error"

C9_ConstructedOnce ==
    /\ constructions <= 1
    /\ \A i \in Inv : handle[i] # 0 => handle[i] = clientHandle
    /\ \A i, j \in Inv : (handle[i] # 0 /\ handle[j] # 0) => handle[i] = handle[j]

C9_Witness ==
    \E i, j \in Inv :
        /\ i # j
        /\ constructions = 1
        /\ handle[i] # 0 /\ handle[j] # 0
        /\ Live(i) /\ Live(j)

\* Invocation i waits for the once mutex, which another invocation holds.
WaitsOnMutex(i) == oncePc[i] = "wait" /\ onceM # {} /\ i \notin onceM

\* C10 as stated: an invocation in flight can always take its next step,
\* whatever the other invocations are doing.
C10_NeverBlocks ==
    \A i \in Inv : Running(i) => ENABLED Step(i)

\* C10: an invocation in flight can always take its next step, except that a
\* request for the shared client made before the client is constructed waits
\* for the once mutex while another invocation holds it; an invocation that
\* has obtained the client never waits.
C10_BlocksOnlyOnFirstClientRequest ==
    \A i \in Inv :
        /\ Running(i) => (ENABLED Step(i) \/ WaitsOnMutex(i))
        /\ oncePc[i] = "wait" => handle[i] = 0

C10_Witness ==
    \E i, j \in Inv :
        /\ i # j
        /\ Running(i) /\ Running(j)
        /\ handle[i] # 0 /\ handle[j] # 0
        /\ Move(i).type = "call" /\ Move(j).type = "call"
        /\ ENABLED BackendCall(i) /\ ENABLED BackendCall(j)

(* ------------------------------------------------------------ statelessness *)

\* The Backend Client calls that request r makes when it is answered with the
\* responses rs, computed from r and rs alone.
ReplayCalls(r, rs) ==
    LET step(k) == [m |-> Handler(r.tool, r.args, SubSeq(rs, 1, k - 1)), ok |-> rs[k].ok]
        isCall(x) == x.m.type = "call"
        made == SelectSeq([k \in 1..Len(rs) |-> step(k)], isCall)
    IN  [k \in 1..Len(made) |->
            [op |-> made[k].m.op, target |-> made[k].m.target,
             params |-> made[k].m.params, ok |-> made[k].ok]]

\* The result request r returns when answered with the responses rs.
ReplayResult(r, rs) ==
    LET m == Handler(r.tool, r.args, rs) IN [kind |-> m.kind, body |-> m.body]

C12_EveryInvocationTerminates ==
    \A i \in Inv : (pc[i] = "run") ~> (pc[i] = "done" /\ result[i].kind \in {"text", "error"})

(* ---------------------------------------------------------------- defaults *)

\* C13: an invocation that leaves out a field with a documented default makes
\* the calls and returns the result that the same request with the field set
\* to its default makes and returns on the same responses.
C13_AbsentEqualsDefault ==
    \A i \in Inv :
        (Live(i) /\ WithDocumentedDefaults(req[i]) # req[i])
        => /\ calls[i] = ReplayCalls(WithDocumentedDefaults(req[i]), resps[i])
           /\ pc[i] = "done"
              => /\ Handler(req[i].tool, WithDocumentedDefaults(req[i]).args, resps[i]).type = "return"
                 /\ result[i] = ReplayResult(WithDocumentedDefaults(req[i]), resps[i])

(* ------------------------------------------------------- action routing *)

\* The Backend Client operations the handler of each declared action uses.
ActionOps(tool, action) ==
    CASE tool = "manage_merge_request" ->
           (CASE action = "list" -> {"ListProjectMergeRequests"}
              [] action = "get" -> {"GetMergeRequest", "ListMergeRequestDiffs"}
              [] action = "create" -> {"CreateMergeRequest"}
              [] action = "update" -> {"UpdateMergeRequest"}
              [] action = "accept" -> {"AcceptMergeRequest"}
              [] action = "rebase" -> {"RebaseMergeRequest"}
              [] action = "changes" -> {"GetMergeRequestChanges"})
      [] tool = "gitflow_create_branch" -> {"ListBranches", "CreateBranch"}
      [] tool = "gitflow_finish_branch" -> {"GetBranch", "CreateMergeRequest", "DeleteBranch"}
      [] tool = "manage_deploy_tokens" ->
           (CASE action = "list" -> {"ListProjectDeployTokens", "ListGroupDeployTokens"}
              [] action = "get" -> {"GetProjectDeployToken", "GetGroupDeployToken"}
              [] action = "create" -> {"CreateProjectDeployToken", "CreateGroupDeployToken"}
              [] action = "delete" -> {"DeleteProjectDeployToken", "DeleteGroupDeployToken"})
      [] tool = "manage_job_actions" ->
           (CASE action = "get" -> {"GetJob"}
              [] action = "cancel" -> {"CancelJob"}
              [] action = "retry" -> {"RetryJob"})
      [] tool = "gitlab_search" -> {"Search"}
      [] tool = "manage_group_variable" ->
           (CASE action = "list" -> {"ListVariables"}
              [] action = "get" -> {"GetVariable"}
              [] action = "create" -> {"CreateVariable"}
              [] action = "update" -> {"UpdateVariable"}
              [] action = "remove" -> {"RemoveVariable"})

\* The branch prefix the handler of a Git Flow action works on.
ActionPrefix(action) ==
    CASE action \in {"create_release", "finish_release"} -> "release/"
      [] action \in {"create_feature", "finish_feature"} -> "feature/"
      [] action \in {"create_hotfix", "finish_hotfix"} -> "hotfix/"

\* The branch of the Git Flow kind a call works on.
FlowBranchOf(c) ==
    CASE c.op = "ListBranches" -> c.params.search
      [] c.op = "CreateMergeRequest" -> c.params.source_branch
      [] OTHER -> c.params.branch

\* Call c is one the handler of the action makes, and not one of a sibling
\* action's handler.
RoutedCall(tool, action, c) ==
    /\ c.op \in ActionOps(tool, action)
    /\ tool \in {"gitflow_create_branch", "gitflow_finish_branch"}
       => FlowBranchOf(c)[1] = ActionPrefix(action)
    /\ tool = "gitlab_search" => c.params.level = action

\* C14: for every value of a tool's declared action enum the dispatcher takes
\* the branch of that action's handler: every call of the invocation is one of
\* that handler's, and the fallback branch (unsupported / invalid action) is
\* never the result.
C14_DeclaredActionRouted ==
    \A i \in Inv :
        (Live(i) /\ SelectsDeclaredAction(i))
        => /\ \A k \in 1..Len(calls[i]) :
                 RoutedCall(req[i].tool, req[i].args.action, calls[i][k])
           /\ pc[i] = "done" => ~IsUnsupportedAction(result[i], req[i].args.action)

\* A remove request of the group variable tool reached RemoveVariable and
\* returned its confirmation.
C14_Witness ==
    \E i \in Inv :
        /\ pc[i] = "done"
        /\ req[i].tool = "manage_group_variable"
        /\ req[i].args.action = "remove"
        /\ Len(calls[i]) = 1
        /\ calls[i][1].op = "RemoveVariable"
        /\ result[i].kind = "text"

(* -------------------------------------------------------- option blocks *)

\* The request with every option block that belongs to another action than
\* the selected one put back to its zero value.
OwnBlocksOnly(r) ==
    LET a == r.args.action
        keep(own, v, zero) == IF a \in own THEN v ELSE zero
    IN  CASE r.tool = "manage_merge_request" ->
               [r EXCEPT
                  !.args.list_options = keep({"list"}, @, MRArgs.list_options),
                  !.args.create_options = keep({"create"}, @, MRArgs.create_options),
                  !.args.update_options = keep({"update"}, @, MRArgs.update_options),
                  !.args.accept_options = keep({"accept"}, @, MRArgs.accept_options),
                  !.args.rebase_options = keep({"rebase"}, @, MRArgs.rebase_options),
                  !.args.changes_options = keep({"changes"}, @, MRArgs.changes_options)]
          [] r.tool = "manage_deploy_tokens" ->
               [r EXCEPT
                  !.args.token_id = keep({"get", "delete"}, @, <<>>),
                  !.args.create_options = keep({"create"}, @, <<>>)]
          [] OTHER -> r

\* C15: only the option block of the selected action is read: an invocation
\* whose request fills option blocks of other actions makes the calls and
\* returns the result (rejections included) of the same request with those
\* blocks empty.
C15_OtherBlocksIgnored ==
    \A i \in Inv :
        (Live(i) /\ OwnBlocksOnly(req[i]) # req[i])
        => /\ calls[i] = ReplayCalls(OwnBlocksOnly(req[i]), resps[i])
           /\ pc[i] = "done"
              => /\ Handler(req[i].tool, OwnBlocksOnly(req[i]).args, resps[i]).type = "return"
                 /\ result[i] = ReplayResult(OwnBlocksOnly(req[i]), resps[i])

\* A list of deploy tokens whose request also carries a token_id and
\* create_options called the backend and returned the list.
C15_Witness ==
    \E i \in Inv :
        /\ pc[i] = "done"
        /\ req[i].tool = "manage_deploy_tokens"
        /\ req[i].args.action = "list"
        /\ req[i].args.token_id # <<>>
        /\ req[i].args.create_options # <<>>
        /\ Len(calls[i]) = 1
        /\ result[i].kind = "text"

(* ------------------------------------------------------- single attempt *)

\* What call c asked of the backend, without the answer.
Attempt(c) == [op |-> c.op, target |-> c.target, params |-> c.params]

\* C16: within one invocation no Backend Client operation is attempted twice:
\* no two calls of the invocation have the same operation, target and
\* parameters, whether the earlier one succeeded or failed.
C16_SingleAttempt ==
    \A i \in Inv :
        Live(i) =>
            \A k, l \in 1..Len(calls[i]) :
                k < l => Attempt(calls[i][k]) # Attempt(calls[i][l])

\* A merge-request creation failed at its only attempt and the invocation
\* returned the failure.
C16_Witness ==
    \E i \in Inv :
        /\ pc[i] = "done"
        /\ req[i].tool = "manage_merge_request"
        /\ req[i].args.action = "create"
        /\ Len(calls[i]) = 1
        /\ calls[i][1].op = "CreateMergeRequest"
        /\ ~calls[i][1].ok
        /\ result[i].kind = "error"

(* ------------------------------------------------------ call parameters *)

\* The update options a request supplies, each as the client library takes
\* it: set when the caller gave a value, unset otherwise.
SuppliedUpdateOptions(uo) ==
    [title |-> OptStr(uo.title),
     description |-> OptStr(uo.description),
     target_branch |-> OptStr(uo.target_branch),
     state_event |-> OptStr(uo.state_event),
     assignee_id |-> OptInt(uo.assignee_id),
     milestone_id |-> OptInt(uo.milestone_id),
     labels |-> OptStr(uo.labels),
     remove_source_branch |-> OptTrue(uo.remove_source_branch),
     squash |-> OptTrue(uo.squash),
     discussion_locked |-> OptTrue(uo.discussion_locked)]

\* C17: every option field the caller supplied for the selected action reaches
\* the Backend Client call unchanged and none is dropped: the options of the
\* UpdateMergeRequest call of an update are the update options of the
\* request, labels included.
C17_SuppliedOptionsPassed ==
    \A i \in Inv :
        (/\ Live(i)
         /\ req[i].tool = "manage_merge_request"
         /\ req[i].args.action = "update")
        => \A k \in 1..Len(calls[i]) :
               /\ calls[i][k].op = "UpdateMergeRequest"
               /\ calls[i][k].target = req[i].args.project_path
               /\ calls[i][k].params.opt = SuppliedUpdateOptions(req[i].args.update_options)

(* ------------------------------------------------- finishing two targets *)

\* The merge-request creations among the calls of invocation i, in order.
Creations(i) ==
    LET isCreate(c) == c.op = "CreateMergeRequest"
    IN  SelectSeq(calls[i], isCreate)

\* The branch a release or hotfix finish works on.
FinishedBranch(r) ==
    IF r.args.action = "finish_release"
    THEN BranchName("release/", r.args.finish_options.release_version)
    ELSE BranchName("hotfix/", r.args.finish_options.hotfix_version)

\* C18: a finished release or hotfix whose branch exists has attempted
\* exactly two merge-request creations, one to the development branch
\* (default develop) and one to the production branch (default master), both
\* from the release or hotfix branch, whatever the backend answered to them.
C18_FinishCreatesBothMRs ==
    \A i \in Inv :
        (/\ Live(i)
         /\ TwoStepFinish(i)
         /\ Len(calls[i]) > 0)
        => LET fo == req[i].args.finish_options
               dev == DefaultStr(fo.development_branch, "develop")
               prod == DefaultStr(fo.production_branch, "master")
               mrs == Creations(i)
               targets == [k \in 1..Len(mrs) |-> mrs[k].params.target_branch]
           IN  /\ Len(mrs) <= 2
               /\ \A k \in 1..Len(mrs) :
                      /\ mrs[k].params.source_branch = FinishedBranch(req[i])
                      /\ mrs[k].target = req[i].args.project_path
               /\ (pc[i] = "done" /\ calls[i][1].ok)
                  => targets \in {<<dev, prod>>, <<prod, dev>>}
               /\ ~calls[i][1].ok => mrs = <<>>

\* A hotfix finish with the default branches attempted the merge request to
\* master, which failed, and then the one to develop, and returned.
C18_Witness ==
    \E i \in Inv :
        /\ pc[i] = "done"
        /\ req[i].tool = "gitflow_finish_branch"
        /\ req[i].args.action = "finish_hotfix"
        /\ req[i].args.finish_options.development_branch = ""
        /\ req[i].args.finish_options.production_branch = ""
        /\ Len(Creations(i)) = 2
        /\ ~Creations(i)[1].ok
        /\ Creations(i)[1].params.target_branch = "master"
        /\ Creations(i)[2].params.target_branch = "develop"
        /\ result[i].kind = "text"

(* ----------------------------------------------------------- empty lists *)

\* The Backend Client operations that return a collection.
ListOps ==
    {"ListProjectMergeRequests", "ListProjectDeployTokens", "ListGroupDeployTokens",
     "ListProjectPipelines", "ListGroupMembers", "ListVariables", "Search"}

\* Invocation i has returned after one list call that the backend answered
\* with zero items.
ListedNothing(i) ==
    /\ pc[i] = "done"
    /\ Len(calls[i]) = 1
    /\ calls[i][1].op \in ListOps
    /\ calls[i][1].ok
    /\ resps[i][Len(resps[i])].val = <<>>

\* The sentences that say a list is empty.
NoResultsSentences ==
    {"No results found for query '%s' in scope '%s' (action: %s)",
     "No variables found in this group."}

\* Where a line of the given format prints what was listed (0: nowhere).
IdentifierAt(format) ==
    CASE format \in {"Variables in group %s:", "Pipelines for project %s:",
                     "Users in group %s:",
                     "No results found for query '%s' in scope '%s' (action: %s)"} -> 2
      [] format = "Deploy tokens for '%s' (%d tokens):" -> 3
      [] OTHER -> 0

\* What invocation i listed: the project or group, or the query of a search.
ListedTarget(i) ==
    IF calls[i][1].op = "Search" THEN req[i].args.query ELSE calls[i][1].target

\* C19: when a list call returns zero items the response is a text that is
\* not empty, contains the sentence saying that nothing was found, and names
\* the target that was listed.
C19_EmptyListExplained ==
    \A i \in Inv :
        ListedNothing(i)
        => /\ result[i].kind = "text"
           /\ result[i].body # <<>>
           /\ \E k \in 1..Len(result[i].body) : result[i].body[k][1] \in NoResultsSentences
           /\ \E k \in 1..Len(result[i].body) :
                  /\ IdentifierAt(result[i].body[k][1]) > 0
                  /\ result[i].body[k][IdentifierAt(result[i].body[k][1])] = ListedTarget(i)

(* -------------------------------------------------- missing configuration *)

\* An invocation is, or was when the process ended, on the request path.
OnRequestPath(i) == pc[i] # "idle" \/ oncePc[i] # "out"

\* C20: a missing base URL or credential ends the process at startup and
\* nowhere else: the process serves, and an invocation runs or constructs the
\* client, only with both set, so no exit on the request path and no result
\* is due to their absence.
C20_MissingConfigFatalAtStartupOnly ==
    /\ proc = "serving" => MissingEnvs(env) = {}
    /\ \A i \in Inv : OnRequestPath(i) => MissingEnvs(env) = {}
    /\ MissingEnvs(env) # {} => proc \in {"starting", "exited"} /\ constructions = 0

\* The server, started with both variables set, has constructed the client
\* for an invocation that went on to call the backend and return.
C20_Witness ==
    \E i \in Inv :
        /\ proc = "serving"
        /\ env.token # "" /\ env.url # ""
        /\ constructions = 1
        /\ pc[i] = "done"
        /\ Len(calls[i]) > 0

(* ------------------------------------------------- deterministic defaults *)

\* The request leaves a field absent for which its handler has a default:
\* until and ref of a commit list, per_page of a search, the development and
\* production branch of a finish.
LeavesDefaulted(r) ==
    CASE r.tool = "list_commits" -> r.args.until = "" \/ r.args.ref = ""
      [] r.tool = "gitlab_search" -> r.args.options.per_page = 0
      [] r.tool = "gitflow_finish_branch" ->
           r.args.finish_options.development_branch = ""
           \/ r.args.finish_options.production_branch = ""
      [] OTHER -> FALSE

\* C21: two invocations of the same request that leave a defaulted field
\* absent use the same default: call by call they ask the same of the
\* backend, whenever each of them runs.
C21_SameDefaultEveryTime ==
    \A i, j \in Inv :
        (/\ Live(i) /\ Live(j)
         /\ req[i] = req[j]
         /\ LeavesDefaulted(req[i]))
        => \A k \in 1..Len(calls[i]) :
               k <= Len(calls[j]) => Attempt(calls[i][k]) = Attempt(calls[j][k])

(* -------------------------------------------------- formatter idempotence *)

C23_DeleteOnlyAfterCreatedMR ==
    \A i \in Inv :
        (Live(i) /\ req[i].tool = "gitflow_finish_branch")
        => \A k \in 1..Len(calls[i]) :
               calls[i][k].op = "DeleteBranch"
               => \E l \in 1..(k - 1) :
                      calls[i][l].op = "CreateMergeRequest" /\ calls[i][l].ok

(* -------------------------------------------------- finish without branch *)

\* C24: when the check that the source branch exists fails, a finish returns
\* an error and makes no further call: no merge request is created and no
\* branch is deleted.
C24_NoBranchNoFinish ==
    \A i \in Inv :
        (/\ Live(i)
         /\ SelectsDeclaredAction(i)
         /\ req[i].tool = "gitflow_finish_branch"
         /\ Len(calls[i]) > 0)
        => /\ calls[i][1].op = "GetBranch"
           /\ ~calls[i][1].ok
              => /\ Len(calls[i]) = 1
                 /\ pc[i] = "done" => result[i].kind = "error"

\* A feature finish did not find its branch and returned the error after
\* that one call.
C24_Witness ==
    \E i \in Inv :
        /\ pc[i] = "done"
        /\ req[i].tool = "gitflow_finish_branch"
        /\ req[i].args.action = "finish_feature"
        /\ req[i].args.finish_options.delete_branch
        /\ Len(calls[i]) = 1
        /\ calls[i][1].op = "GetBranch"
        /\ ~calls[i][1].ok
        /\ result[i].kind = "error"

(* ---------------------------------------------------- create after check *)

\* The branch list answered to invocation i holds the exact name it asked for.
ListedExactly(i) ==
    \E n \in 1..Len(resps[i][1].val) : resps[i][1].val[n] = calls[i][1].params.search

\* C25: a create action calls CreateBranch only after its ListBranches call
\* succeeded with no branch of exactly the new name in the answer; when the
\* listing failed or holds the exact name, that call stays the only one and
\* the result is an error.
C25_CreateOnlyAfterCleanListing ==
    \A i \in Inv :
        (/\ Live(i)
         /\ SelectsDeclaredAction(i)
         /\ req[i].tool = "gitflow_create_branch"
         /\ Len(calls[i]) > 0)
        => /\ calls[i][1].op = "ListBranches"
           /\ \A k \in 1..Len(calls[i]) :
                  calls[i][k].op = "CreateBranch"
                  => /\ k = 2
                     /\ calls[i][1].ok
                     /\ ~ListedExactly(i)
                     /\ calls[i][k].params.branch = calls[i][1].params.search
           /\ (~calls[i][1].ok \/ ListedExactly(i))
              => /\ Len(calls[i]) = 1
                 /\ pc[i] = "done" => result[i].kind = "error"

\* A release create was answered a list with a longer name and the exact
\* name, made no CreateBranch call and returned an error.
C25_Witness ==
    \E i \in Inv :
        /\ pc[i] = "done"
        /\ req[i].tool = "gitflow_create_branch"
        /\ req[i].args.action = "create_release"
        /\ Len(calls[i]) = 1
        /\ calls[i][1].ok
        /\ Len(resps[i][1].val) = 2
        /\ ListedExactly(i)
        /\ result[i].kind = "error"

(* ------------------------------------------------------ concurrent create *)

\* Invocation i has asked the backend to create its branch, with this answer.
CreatedBranch(i, ok) ==
    \E k \in 1..Len(calls[i]) : calls[i][k].op = "CreateBranch" /\ calls[i][k].ok = ok

\* The backend has not created the branch of i and j twice.
RejectsExistingBranch(i, j) == ~(CreatedBranch(i, TRUE) /\ CreatedBranch(j, TRUE))

\* C26: of two invocations in flight together that create the same branch of
\* the same project, the backend refusing to create a branch that exists, at
\* most one returns the branch-created text and then the other returns an
\* error result.
C26_OneCreateWins ==
    \A i, j \in Inv :
        (/\ i # j
         /\ pc[i] = "done" /\ pc[j] = "done"
         /\ req[i].tool = "gitflow_create_branch"
         /\ req[i] = req[j]
         /\ RejectsExistingBranch(i, j))
        => /\ ~(result[i].kind = "text" /\ result[j].kind = "text")
           /\ result[i].kind = "text" => result[j].kind = "error"

\* Both invocations listed no such branch and both asked for the creation;
\* the backend created it for one and refused the other, which returned an
\* error.
C26_Witness ==
    \E i, j \in Inv :
        /\ i # j
        /\ pc[i] = "done" /\ pc[j] = "done"
        /\ req[i] = req[j]
        /\ req[i].tool = "gitflow_create_branch"
        /\ CreatedBranch(i, TRUE)
        /\ CreatedBranch(j, FALSE)
        /\ result[i].kind = "text"
        /\ result[j].kind = "error"

(* --------------------------------------------------------- hidden values *)

\* A variable with its value, when it has one, replaced by a fixed one.
MaskValue(v) == [v EXCEPT !.value = IF @ = "" THEN "" ELSE "masked"]

\* The answers of the backend to a variable list or get, the values of the
\* variables masked.
MaskValues(tool_action, rs) ==
    [k \in 1..Len(rs) |->
        IF ~rs[k].ok THEN rs[k]
        ELSE IF tool_action = "get" THEN Success(MaskValue(rs[k].val))
        ELSE Success([n \in 1..Len(rs[k].val) |-> MaskValue(rs[k].val[n])])]

\* C27: the text of a group-variable list or get depends on the value of a
\* variable only through whether it is empty: it is the text the handler
\* returns when every non-empty value of the answer is replaced by another,
\* so the value itself is no part of it.
C27_ValuesHidden ==
    \A i \in Inv :
        (/\ pc[i] = "done"
         /\ req[i].tool = "manage_group_variable"
         /\ req[i].args.action \in {"list", "get"})
        => result[i] = ReplayResult(req[i], MaskValues(req[i].args.action, resps[i]))

\* A get of a variable whose value is not empty returned its text.
C27_Witness ==
    \E i \in Inv :
        /\ pc[i] = "done"
        /\ req[i].tool = "manage_group_variable"
        /\ req[i].args.action = "get"
        /\ Len(calls[i]) = 1
        /\ calls[i][1].ok
        /\ resps[i][1].val.value = "s3cr3t"
        /\ result[i].kind = "text"

(* --------------------------------------------------------- search scopes *)

\* C28: a finished search with one of the three actions and a scope of the
\* declared set has called the backend's search, once, for this scope.
C28_DeclaredScopeSearched ==
    \A i \in Inv :
        (/\ pc[i] = "done"
         /\ req[i].tool = "gitlab_search"
         /\ req[i].args.action \in {"global", "group", "project"}
         /\ req[i].args.scope \in SearchScopes)
        => /\ Len(calls[i]) = 1
           /\ calls[i][1].op = "Search"
           /\ calls[i][1].params.scope = req[i].args.scope

(* ------------------------------------------------- the order of a finish *)

\* The targets of the two merge requests of a release or hotfix finish, in
\* the order of the claim.
FinishTargets(r) ==
    LET fo == r.args.finish_options
        dev == DefaultStr(fo.development_branch, "develop")
        prod == DefaultStr(fo.production_branch, "master")
    IN  IF r.args.action = "finish_release" THEN <<dev, prod>> ELSE <<prod, dev>>

\* C29: the calls of a release or hotfix finish are, in this order, the
\* branch lookup, the merge request to the first target, the merge request
\* to the second target and, only when deletion was asked for, the branch
\* deletion; every call has its answer before the next is issued.
C29_FinishCallsInOrder ==
    \A i \in Inv :
        (Live(i) /\ TwoStepFinish(i))
        => /\ Len(calls[i]) <= 4
           /\ Len(resps[i]) = Len(calls[i])
           /\ \A k \in 1..Len(calls[i]) :
                  /\ k = 1 => calls[i][k].op = "GetBranch"
                  /\ k \in {2, 3} =>
                         /\ calls[i][k].op = "CreateMergeRequest"
                         /\ calls[i][k].params.target_branch = FinishTargets(req[i])[k - 1]
                  /\ k = 4 =>
                         /\ calls[i][k].op = "DeleteBranch"
                         /\ req[i].args.finish_options.delete_branch
           /\ (pc[i] = "done" /\ Len(calls[i]) > 1) =>
                  Len(calls[i]) = IF req[i].args.finish_options.delete_branch THEN 4 ELSE 3

\* A release finish with distinct targets made its four calls and returned.
C29_Witness ==
    \E i \in Inv :
        /\ pc[i] = "done"
        /\ req[i].tool = "gitflow_finish_branch"
        /\ req[i].args.action = "finish_release"
        /\ FinishTargets(req[i])[1] # FinishTargets(req[i])[2]
        /\ Len(calls[i]) = 4

(* ------------------------------------------------------- nil-safe blocks *)

\* The get or delete sub-handler has been entered: it is the only place that
\* converts the id or calls the get or delete method of the client.
EnteredGetOrDelete(i) ==
    \/ \E k \in 1..Len(calls[i]) :
           calls[i][k].op \in {"GetProjectDeployToken", "GetGroupDeployToken",
                               "DeleteProjectDeployToken", "DeleteGroupDeployToken"}
    \/ /\ pc[i] = "done"
       /\ result[i].kind = "error"
       /\ result[i].body[1][1] = "invalid deploy token ID: %v"

\* The create sub-handler has been entered: it is the only place that parses
\* the expiry or calls the create method of the client.
EnteredCreate(i) ==
    \/ \E k \in 1..Len(calls[i]) :
           calls[i][k].op \in {"CreateProjectDeployToken", "CreateGroupDeployToken"}
    \/ /\ pc[i] = "done"
       /\ result[i].kind = "error"
       /\ result[i].body[1][1] = "invalid expires_at format: %v"

\* C30: a deploy-token request never ends in a panic; the get and delete
\* sub-handlers are entered only with a token_id, the create sub-handler
\* only with create_options that have a name and a scope.
C30_BlocksCheckedBeforeUse ==
    \A i \in Inv :
        (Live(i) /\ req[i].tool = "manage_deploy_tokens")
        => LET args == req[i].args
           IN  /\ pc[i] = "done" => result[i].kind # "panic"
               /\ EnteredGetOrDelete(i) => args.token_id # <<>>
               /\ EnteredCreate(i) =>
                      /\ args.create_options # <<>>
                      /\ args.create_options[1].name # ""
                      /\ Len(args.create_options[1].scopes) > 0
               /\ (/\ pc[i] = "done"
                   /\ \/ args.action \in {"get", "delete"} /\ args.token_id = <<>>
                      \/ args.action = "create" /\ args.create_options = <<>>
                      \/ args.action \notin {"list", "get", "create", "delete"})
                  => /\ result[i].kind = "error"
                     /\ calls[i] = <<>>

\* A get without token_id and with every other block absent was answered
\* with the error that asks for token_id.
C30_Witness ==
    \E i \in Inv :
        /\ pc[i] = "done"
        /\ req[i].tool = "manage_deploy_tokens"
        /\ req[i].args.action = "get"
        /\ req[i].args.scope.type = "project"
        /\ req[i].args.scope.project_path # ""
        /\ req[i].args.token_id = <<>>
        /\ req[i].args.create_options = <<>>
        /\ result[i].kind = "error"
        /\ result[i].body = << Required({"token_id"}, "get/delete") >>
        /\ calls[i] = <<>>

====
